---- MODULE Spec2Model ----
(***************************************************************************)
(* Verification model of the DeloMemory dashboard.                         *)
(*                                                                         *)
(* Strings that the code inspects character by character (user ids,        *)
(* domains, queries) are tuples of one-character strings; rows of the      *)
(* remote tables are records holding the columns the code reads or writes. *)
(***************************************************************************)
EXTENDS Integers, Sequences, FiniteSets, TLC

VARIABLES
    user,            \* local part of the signed-in user's e-mail
    page,            \* the dashboard page that is mounted
    api_keys,        \* the delomemory.api_keys table, in insertion order
    nextId,          \* next value of the api_keys id sequence
    apiKeys,         \* Settings page: data of the ['settings','api-keys'] query
    myKeys,          \* Keys page: data of the ['my-keys', userId] query
    newlyCreatedKey, \* Keys page: the full key shown in the banner, or null
    lastOp,          \* what the most recent handler did (request, payload)
    knowledge_chunks,\* the delomemory.knowledge_chunks table
    io               \* the request or computation under study: inputs and result

vars == <<user, page, api_keys, nextId, apiKeys, myKeys, newlyCreatedKey,
          lastOp, knowledge_chunks, io>>

adminVars == <<user, page, api_keys, nextId, apiKeys, myKeys, newlyCreatedKey,
               lastOp>>

(***************************************************************************)
(* Bounds                                                                  *)
(***************************************************************************)
MaxKeyId == 3

(***************************************************************************)
(* Generic helpers                                                         *)
(***************************************************************************)
\* The data of a query: undefined until its first fetch has returned.
Undefined == [loaded |-> FALSE, data |-> <<>>]

Loaded(rows) == [loaded |-> TRUE, data |-> rows]

\* null, where a number may also stand (JavaScript null, SQL NULL).
Null == -1

Range(s) == {s[i] : i \in 1..Len(s)}

RECURSIVE Reverse(_)
Reverse(s) == IF s = <<>> THEN <<>> ELSE Reverse(Tail(s)) \o <<Head(s)>>


(***************************************************************************)
(* Strings                                                                 *)
(***************************************************************************)
\* String.prototype.toLowerCase on the characters the model uses.
LowerChar(c) ==
    CASE c = "A" -> "a"
      [] c = "B" -> "b"
      [] c = "C" -> "c"
      [] c = "F" -> "f"
      [] OTHER -> c

ToLowerCase(s) == [i \in 1..Len(s) |-> LowerChar(s[i])]

RECURSIVE TrimStart(_)
TrimStart(s) ==
    IF s # <<>> /\ Head(s) = " " THEN TrimStart(Tail(s)) ELSE s

\* String.prototype.trim
Trim(s) == Reverse(TrimStart(Reverse(TrimStart(s))))

(***************************************************************************)
(* Access levels and the api_keys table                                    *)
(***************************************************************************)
\* ACCESS_LEVELS = [1, 2, 3, 4]
ACCESS_LEVELS == 1..4

\* The value of Math.max() over no arguments, -Infinity: below every number.
NegInfinity == -2

\* JavaScript's ToNumber on an access_level read from a row: null is 0.
ToNumber(level) == IF level = Null THEN 0 ELSE level

\* The access_level as it is serialized into the body of a request:
\* JSON.stringify writes -Infinity as null.
JsonNumber(level) == IF level = NegInfinity THEN Null ELSE level

RECURSIVE SetMax(_)
SetMax(S) ==
    IF S = {} THEN NegInfinity
    ELSE LET x == CHOOSE y \in S : TRUE
             m == SetMax(S \ {x})
         IN IF x > m THEN x ELSE m

\* Math.max(...levels)
MathMax(levels) == SetMax({ToNumber(levels[i]) : i \in 1..Len(levels)})

UserA == <<"a">>
UserB == <<"b">>

KeyRow(id, userId, level, active) ==
    [id |-> id, user_id |-> userId, access_level |-> level, is_active |-> active]

\* ORDER BY access_level DESC: Postgres puts NULL first in a descending order;
\* rows of equal level are taken in insertion order.
LevelRank(level) == IF level = Null THEN 5 ELSE level

RECURSIVE InsertByLevelDesc(_, _)
InsertByLevelDesc(row, sorted) ==
    IF sorted = <<>> THEN <<row>>
    ELSE IF LevelRank(row.access_level) > LevelRank(Head(sorted).access_level)
         THEN <<row>> \o sorted
         ELSE <<Head(sorted)>> \o InsertByLevelDesc(row, Tail(sorted))

RECURSIVE OrderByLevelDesc(_)
OrderByLevelDesc(rows) ==
    IF rows = <<>> THEN <<>>
    ELSE InsertByLevelDesc(rows[Len(rows)],
                           OrderByLevelDesc(SubSeq(rows, 1, Len(rows) - 1)))

\* Settings page query: select * from api_keys order by access_level desc.
\* The query function drops the error: a failed read yields [].
SettingsKeysQuery(table, readOk) ==
    IF readOk THEN OrderByLevelDesc(table) ELSE <<>>

\* Keys page query: the user's rows, newest first, without the user_id column.
MyKeysQuery(table, userId) ==
    LET mine == SelectSeq(table, LAMBDA r : r.user_id = userId)
    IN Reverse([i \in 1..Len(mine) |->
                   [id |-> mine[i].id, access_level |-> mine[i].access_level,
                    is_active |-> mine[i].is_active]])

\* Keys page: the user's current access level.
CurrentUserLevel(keys) ==
    IF ~keys.loaded \/ Len(keys.data) = 0 THEN Null
    ELSE LET active == SelectSeq(keys.data, LAMBDA k : k.is_active)
         IN MathMax([i \in 1..Len(active) |-> active[i].access_level])


(***************************************************************************)
(* Middleware: updateSession                                               *)
(*                                                                         *)
(* A path is the sequence of the pieces it is written with, so that        *)
(* <<"/login", "x">> is the path /loginx and startsWith is the prefix      *)
(* relation on sequences.                                                  *)
(***************************************************************************)
NoUser == <<>>

StartsWith(path, prefix) ==
    /\ Len(prefix) <= Len(path)
    /\ SubSeq(path, 1, Len(prefix)) = prefix

LoginPath == <<"/login">>
AuthPath == <<"/auth">>
DashboardPath == <<"/dashboard">>
SettingsPath == <<"/dashboard", "/settings">>
AccessDeniedPath_IsSettingsPath == SettingsPath

AccessDeniedPath == <<"/dashboard", "/access-denied">>

\* .from('api_keys').select('access_level').eq('user_id', id).single():
\* the row when exactly one row matches, otherwise no data.
SingleKeyOf(table, userId, readOk) ==
    LET rows == SelectSeq(table, LAMBDA r : r.user_id = userId)
    IN IF readOk /\ Len(rows) = 1 THEN <<rows[1]>> ELSE <<>>

Redirect(path) == [kind |-> "redirect", path |-> path]

Serve(path) == [kind |-> "next", path |-> path]

updateSession_NoLoginBounce(authUser, pathname, table, readOk) ==
    IF /\ authUser = NoUser
       /\ ~StartsWith(pathname, LoginPath)
       /\ ~StartsWith(pathname, AuthPath)
    THEN Redirect(LoginPath)
    ELSE IF authUser # NoUser /\ pathname = SettingsPath
    THEN LET data == SingleKeyOf(table, authUser, readOk)
         IN IF data = <<>> \/ ToNumber(data[1].access_level) < 4
            THEN Redirect(AccessDeniedPath)
            ELSE Serve(pathname)
    ELSE Serve(pathname)

updateSession(authUser, pathname, table, readOk) ==
    IF /\ authUser = NoUser
       /\ ~StartsWith(pathname, LoginPath)
       /\ ~StartsWith(pathname, AuthPath)
    THEN Redirect(LoginPath)
    ELSE IF authUser # NoUser /\ pathname = LoginPath
    THEN Redirect(DashboardPath)
    ELSE IF authUser # NoUser /\ pathname = SettingsPath
    THEN LET data == SingleKeyOf(table, authUser, readOk)
         IN IF data = <<>> \/ ToNumber(data[1].access_level) < 4
            THEN Redirect(AccessDeniedPath)
            ELSE Serve(pathname)
    ELSE Serve(pathname)


(***************************************************************************)
(* Settings page and Keys page                                             *)
(***************************************************************************)
Users == {UserA, UserB}

\* What can be typed into the invite form's Username and Display Name.
RawUserIds == {<<>>, <<"B">>, <<"c", " ">>}

RawNames == {<<>>, <<"n">>}

\* The options of the access-level selects that get picked.
PickedLevels == {l \in ACCESS_LEVELS : l \in {2, 4}}

\* The tables the model starts from: the rows have been written by the
\* Settings page's add-user form.
InitTables ==
    { <<KeyRow(1, UserA, 4, TRUE)>>,
      <<KeyRow(1, UserA, 4, TRUE), KeyRow(2, UserB, 2, TRUE)>> }

NoOp == [op |-> "none", target |-> <<>>, request |-> "none", level |-> Null]

Op(name, target, request, level) ==
    [op |-> name, target |-> target, request |-> request, level |-> level]

InitAdmin ==
    /\ user \in Users
    /\ page = "keys"
    /\ api_keys \in InitTables
    /\ nextId = Len(api_keys) + 1
    /\ apiKeys = Undefined
    /\ myKeys = Undefined
    /\ newlyCreatedKey = <<>>
    /\ lastOp = NoOp

\* Client-side navigation between the two pages; the middleware decides
\* whether /dashboard/settings is served.  The page that is left is
\* unmounted and loses its component state; the query data stays cached.
Navigate(p) ==
    /\ p # page
    /\ p = "settings" => updateSession(user, SettingsPath, api_keys, TRUE).kind = "next"
    /\ page' = p
    /\ newlyCreatedKey' = <<>>
    /\ lastOp' = NoOp
    /\ UNCHANGED <<user, api_keys, nextId, apiKeys, myKeys, knowledge_chunks, io>>

\* What a table read answered: rows, or an error.
ReadOutcome(readOk) == IF readOk THEN "read" ELSE "read failed"

\* The mounted page's query fetches (on mount, on window focus).
FetchApiKeys(readOk) ==
    /\ page = "settings"
    /\ apiKeys' = Loaded(SettingsKeysQuery(api_keys, readOk))
    /\ lastOp' = Op("fetch apiKeys", <<>>, ReadOutcome(readOk), Null)
    /\ UNCHANGED <<user, page, api_keys, nextId, myKeys, knowledge_chunks, io, newlyCreatedKey>>

\* A failed read of the Keys page throws: the query keeps its data.
RefetchMyKeys(keys, table, userId, readOk) ==
    IF readOk THEN Loaded(MyKeysQuery(table, userId)) ELSE keys

FetchMyKeys(readOk) ==
    /\ page = "keys"
    /\ myKeys' = RefetchMyKeys(myKeys, api_keys, user, readOk)
    /\ lastOp' = Op("fetch myKeys", <<>>, ReadOutcome(readOk), Null)
    /\ UNCHANGED <<user, page, api_keys, nextId, apiKeys, knowledge_chunks, io, newlyCreatedKey>>

\* Settings page: handleInvite, called with what the invite form holds: the
\* Username and Display Name fields and the Access Level select, whose
\* options are ACCESS_LEVELS.  A row inserted without is_active gets the column's
\* default, true.
handleInvite(newUserId, newDisplayName, newAccessLevel, dbOk, readOk) ==
    LET trimmedId == ToLowerCase(Trim(newUserId))
        trimmedName == Trim(newDisplayName)
        level == JsonNumber(newAccessLevel)
    IN
    /\ page = "settings"
    /\ IF trimmedId = <<>> \/ trimmedName = <<>>
       THEN /\ lastOp' = Op("handleInvite", <<>>, "none", Null)
            /\ UNCHANGED <<api_keys, nextId, apiKeys>>
       ELSE IF \E i \in 1..Len(apiKeys.data) : apiKeys.data[i].user_id = trimmedId
       THEN /\ lastOp' = Op("handleInvite", <<>>, "inviteError", Null)
            /\ UNCHANGED <<api_keys, nextId, apiKeys>>
       ELSE /\ nextId <= MaxKeyId
            /\ lastOp' = Op("handleInvite", <<>>, "insert", level)
            /\ IF dbOk
               THEN /\ api_keys' = Append(api_keys,
                                          KeyRow(nextId, trimmedId, level, TRUE))
                    /\ nextId' = nextId + 1
                    /\ apiKeys' = Loaded(SettingsKeysQuery(api_keys', readOk))
               ELSE UNCHANGED <<api_keys, nextId, apiKeys>>
    /\ UNCHANGED <<user, page, myKeys, knowledge_chunks, io, newlyCreatedKey>>

\* update api_keys set access_level = level where user_id = userId
UpdateLevel(table, userId, level) ==
    [i \in 1..Len(table) |->
        IF table[i].user_id = userId
        THEN [table[i] EXCEPT !.access_level = level]
        ELSE table[i]]

\* Settings page: handleUpdateAccessLevel, called by a row's select.
handleUpdateAccessLevel(userId, level, dbOk, readOk) ==
    /\ page = "settings"
    /\ \E i \in 1..Len(apiKeys.data) :
          /\ apiKeys.data[i].user_id = userId
          /\ apiKeys.data[i].access_level # level
    /\ lastOp' = Op("handleUpdateAccessLevel", <<>>, "update", JsonNumber(level))
    /\ IF dbOk
       THEN /\ api_keys' = UpdateLevel(api_keys, userId, JsonNumber(level))
            /\ apiKeys' = Loaded(SettingsKeysQuery(api_keys', readOk))
       ELSE UNCHANGED <<api_keys, apiKeys>>
    /\ UNCHANGED <<user, page, nextId, myKeys, knowledge_chunks, io, newlyCreatedKey>>

\* The guard of the Settings page's handleRevoke: TRUE when the removal is
\* refused.
RevokeGuard(keys, userId) ==
    LET l4Count == Len(SelectSeq(keys, LAMBDA k : k.access_level = 4))
        found == SelectSeq(keys, LAMBDA k : k.user_id = userId)
    IN /\ found # <<>>
       /\ found[1].access_level = 4
       /\ l4Count <= 1

\* delete from api_keys where user_id = userId
DeleteUser(table, userId) == SelectSeq(table, LAMBDA r : r.user_id # userId)

\* Settings page: handleRevoke, called by a row's Remove button.
settingsHandleRevoke(userId, confirmed, dbOk, readOk) ==
    /\ page = "settings"
    /\ \E i \in 1..Len(apiKeys.data) : apiKeys.data[i].user_id = userId
    /\ IF RevokeGuard(apiKeys.data, userId)
       THEN /\ lastOp' = Op("settings.handleRevoke", userId, "alert", Null)
            /\ UNCHANGED <<api_keys, apiKeys>>
       ELSE IF ~confirmed
       THEN /\ lastOp' = Op("settings.handleRevoke", userId, "none", Null)
            /\ UNCHANGED <<api_keys, apiKeys>>
       ELSE /\ lastOp' = Op("settings.handleRevoke", userId, "delete", Null)
            /\ IF dbOk
               THEN /\ api_keys' = DeleteUser(api_keys, userId)
                    /\ apiKeys' = Loaded(SettingsKeysQuery(api_keys', readOk))
               ELSE UNCHANGED <<api_keys, apiKeys>>
    /\ UNCHANGED <<user, page, nextId, myKeys, knowledge_chunks, io, newlyCreatedKey>>

handleCreate_ShowsKeyBeforeInsert(displayName, dbOk, readOk) ==
    LET trimmedName == Trim(displayName)
        currentUserLevel == CurrentUserLevel(myKeys)
        level == JsonNumber(currentUserLevel)
    IN
    /\ page = "keys"
    /\ IF trimmedName = <<>> \/ currentUserLevel = Null
       THEN /\ lastOp' = Op("handleCreate", <<>>, "none", Null)
            /\ UNCHANGED <<api_keys, nextId, myKeys, newlyCreatedKey>>
       ELSE /\ nextId <= MaxKeyId
            /\ lastOp' = Op("handleCreate", <<>>, "insert", level)
            /\ newlyCreatedKey' = <<nextId>>
            /\ IF dbOk
               THEN /\ api_keys' = Append(api_keys, KeyRow(nextId, user, level, TRUE))
                    /\ nextId' = nextId + 1
                    /\ myKeys' = RefetchMyKeys(myKeys, api_keys', user, readOk)
               ELSE UNCHANGED <<api_keys, nextId, myKeys>>
    /\ UNCHANGED <<user, page, apiKeys, knowledge_chunks, io>>

\* Keys page: handleCreate, called by the create form.  The key that
\* generateApiKey makes for the row with id n is key number n.
handleCreate(displayName, dbOk, readOk) ==
    LET trimmedName == Trim(displayName)
        currentUserLevel == CurrentUserLevel(myKeys)
        level == JsonNumber(currentUserLevel)
    IN
    /\ page = "keys"
    /\ IF trimmedName = <<>> \/ currentUserLevel = Null
       THEN /\ lastOp' = Op("handleCreate", <<>>, "none", Null)
            /\ UNCHANGED <<api_keys, nextId, myKeys, newlyCreatedKey>>
       ELSE /\ nextId <= MaxKeyId
            /\ lastOp' = Op("handleCreate", <<>>, "insert", level)
            /\ IF dbOk
               THEN /\ api_keys' = Append(api_keys, KeyRow(nextId, user, level, TRUE))
                    /\ nextId' = nextId + 1
                    /\ newlyCreatedKey' = <<nextId>>
                    /\ myKeys' = RefetchMyKeys(myKeys, api_keys', user, readOk)
               ELSE UNCHANGED <<api_keys, nextId, myKeys, newlyCreatedKey>>
    /\ UNCHANGED <<user, page, apiKeys, knowledge_chunks, io>>

RevokeKey_DeletesRow(table, keyId, userId) ==
    SelectSeq(table, LAMBDA r : ~(r.id = keyId /\ r.user_id = userId))

\* update api_keys set is_active = false where id = keyId and user_id = userId
RevokeKey(table, keyId, userId) ==
    [i \in 1..Len(table) |->
        IF table[i].id = keyId /\ table[i].user_id = userId
        THEN [table[i] EXCEPT !.is_active = FALSE]
        ELSE table[i]]

\* Keys page: handleRevoke, called by the Revoke button of an active key.
keysHandleRevoke(keyId, dbOk, readOk) ==
    /\ page = "keys"
    /\ \E i \in 1..Len(myKeys.data) :
          myKeys.data[i].id = keyId /\ myKeys.data[i].is_active
    /\ lastOp' = Op("keys.handleRevoke", <<>>, "update is_active", Null)
    /\ IF dbOk
       THEN /\ api_keys' = RevokeKey(api_keys, keyId, user)
            /\ myKeys' = RefetchMyKeys(myKeys, api_keys', user, readOk)
       ELSE UNCHANGED <<api_keys, myKeys>>
    /\ UNCHANGED <<user, page, nextId, apiKeys, knowledge_chunks, io, newlyCreatedKey>>

\* Keys page: handleDismissNewKey, called by the banner's dismiss button.
handleDismissNewKey ==
    /\ page = "keys"
    /\ newlyCreatedKey # <<>>
    /\ newlyCreatedKey' = <<>>
    /\ lastOp' = Op("handleDismissNewKey", <<>>, "none", Null)
    /\ UNCHANGED <<user, page, api_keys, nextId, apiKeys, myKeys, knowledge_chunks, io>>

NoIo == [kind |-> "none"]

Init == InitAdmin /\ knowledge_chunks = <<>> /\ io = NoIo

Next ==
    \/ \E p \in {"settings", "keys"} : Navigate(p)
    \/ \E readOk \in BOOLEAN : FetchApiKeys(readOk)
    \/ \E readOk \in BOOLEAN : FetchMyKeys(readOk)
    \/ \E newUserId \in RawUserIds, newDisplayName \in RawNames,
          newAccessLevel \in PickedLevels, dbOk, readOk \in BOOLEAN :
          handleInvite(newUserId, newDisplayName, newAccessLevel, dbOk, readOk)
    \/ \E userId \in Users \cup {<<"c">>}, level \in PickedLevels, dbOk, readOk \in BOOLEAN :
          handleUpdateAccessLevel(userId, level, dbOk, readOk)
    \/ \E userId \in Users \cup {<<"c">>}, confirmed, dbOk, readOk \in BOOLEAN :
          settingsHandleRevoke(userId, confirmed, dbOk, readOk)
    \/ \E displayName \in RawNames, dbOk, readOk \in BOOLEAN :
          handleCreate(displayName, dbOk, readOk)
    \/ \E keyId \in 1..MaxKeyId, dbOk, readOk \in BOOLEAN :
          keysHandleRevoke(keyId, dbOk, readOk)
    \/ handleDismissNewKey

Spec == Init /\ [][Next]_vars


(***************************************************************************)
(* Claims about the Settings page and the Keys page                        *)
(***************************************************************************)
\* The row that handleRevoke(userId) finds in the loaded list is an L4 key
\* and no other key of the list is both active and L4.
TargetIsLastActiveL4(keys, userId) ==
    \E i \in 1..Len(keys) :
        /\ keys[i].user_id = userId
        /\ \A j \in 1..(i - 1) : keys[j].user_id # userId
        /\ keys[i].access_level = 4
        /\ \A j \in 1..Len(keys) :
              j # i => ~(keys[j].is_active /\ keys[j].access_level = 4)

\* C1: a step of the Settings page's handleRevoke(userId) issues no delete
\* when the target is the last active L4 key of the loaded list, and in every
\* other case it goes on to the confirmation prompt (it shows no alert) and
\* issues the delete when the prompt is confirmed.
C1_RevokeRefusesLastActiveL4 ==
    [][lastOp'.op = "settings.handleRevoke" =>
          IF TargetIsLastActiveL4(apiKeys.data, lastOp'.target)
          THEN lastOp'.request # "delete"
          ELSE lastOp'.request \in {"none", "delete"}]_vars

HasL4(table) == \E i \in 1..Len(table) : table[i].access_level = 4

SettingsOps == {"handleInvite", "handleUpdateAccessLevel", "settings.handleRevoke"}

\* The loaded key list is the table as it is now.
KeyListUpToDate == apiKeys = Loaded(OrderByLevelDesc(api_keys))

\* C2: a Settings-page operation that starts with an up-to-date key list and
\* a table holding an L4 key leaves a table that holds an L4 key.
C2_SettingsKeepAnL4Key ==
    [][(lastOp'.op \in SettingsOps /\ KeyListUpToDate /\ HasL4(api_keys))
          => HasL4(api_keys')]_vars

\* C3: every insert and every access-level update sent by the dashboard
\* carries an access_level of 1, 2, 3 or 4.
C3_WrittenLevelsValid ==
    lastOp.request \in {"insert", "update"} => lastOp.level \in ACCESS_LEVELS

\* C11: a fetch of a page's query whose table read fails reports the failure:
\* the query gets no new data, in particular no empty list.
C11_FailedReadIsReported ==
    [][lastOp'.request = "read failed" =>
          apiKeys' = apiKeys /\ myKeys' = myKeys]_vars

\* The access levels of the active keys of the Keys page's loaded list.
LoadedActiveLevels ==
    {myKeys.data[i].access_level : i \in {j \in 1..Len(myKeys.data) : myKeys.data[j].is_active}}

\* C14: handleCreate sends an insert only when the loaded list holds an
\* active key, and the inserted access_level is the highest level among the
\* list's active keys.
C14_NewKeyInheritsHighestActiveLevel ==
    [][(lastOp'.op = "handleCreate" /\ lastOp'.request = "insert") =>
          /\ LoadedActiveLevels # {}
          /\ lastOp'.level \in LoadedActiveLevels
          /\ \A level \in LoadedActiveLevels : level <= lastOp'.level]_vars

\* C15: the banner's key changes to a key only by a handleCreate whose insert
\* succeeded, and then to the key of the row just inserted, which no earlier
\* row and no earlier banner had; handleDismissNewKey clears it; a
\* handleCreate whose insert fails leaves the banner as it was.
C15_KeyShownOnce ==
    [][/\ (newlyCreatedKey' # newlyCreatedKey /\ newlyCreatedKey' # <<>>) =>
             /\ lastOp'.op = "handleCreate"
             /\ api_keys' = Append(api_keys, api_keys'[Len(api_keys')])
             /\ newlyCreatedKey' = <<api_keys'[Len(api_keys')].id>>
             /\ \A i \in 1..Len(api_keys) : api_keys[i].id < newlyCreatedKey'[1]
             /\ newlyCreatedKey # <<>> => newlyCreatedKey[1] < newlyCreatedKey'[1]
       /\ newlyCreatedKey' # <<>> => newlyCreatedKey'[1] < nextId'
       /\ nextId' >= nextId
       /\ lastOp'.op = "handleDismissNewKey" => newlyCreatedKey' = <<>>
       /\ (lastOp'.op = "handleCreate" /\ api_keys' = api_keys) =>
             newlyCreatedKey' = newlyCreatedKey]_vars

\* handleCreate has just inserted a row and the banner shows that row's key.
C15_Witness ==
    /\ newlyCreatedKey # <<>>
    /\ lastOp.op = "handleCreate" /\ lastOp.request = "insert"
    /\ \A i \in 1..Len(api_keys) : api_keys[i].id <= newlyCreatedKey[1]
    /\ nextId = newlyCreatedKey[1] + 1

\* The user has one L4 key and it has been revoked.
OnlyL4KeyRevoked(table, userId) ==
    LET l4 == SelectSeq(table, LAMBDA r : r.user_id = userId /\ r.access_level = 4)
    IN Len(l4) = 1 /\ ~l4[1].is_active

\* C19: a request for /dashboard/settings by a user whose only L4 key has
\* been revoked is not served.
C19_RevokedAdminIsDenied ==
    [][(page # "settings" /\ page' = "settings") =>
          ~OnlyL4KeyRevoked(api_keys, user)]_vars

\* C20: a step of the dashboard leaves every revoked key revoked or removes
\* it, and gives no new row the id of a row there has been; a step of the Keys
\* page's handleRevoke deletes no row and changes nothing but is_active, to
\* false, of at most one row, a row of the current user.
C20_RevocationIsPermanent ==
    [][/\ \A i \in 1..Len(api_keys), j \in 1..Len(api_keys') :
             (api_keys'[j].id = api_keys[i].id /\ ~api_keys[i].is_active)
                 => ~api_keys'[j].is_active
       /\ \A j \in 1..Len(api_keys') :
             api_keys'[j].id < nextId \/ api_keys'[j].is_active
       /\ nextId' >= nextId
       /\ \A j \in 1..Len(api_keys') : api_keys'[j].id < nextId'
       /\ lastOp'.op = "keys.handleRevoke" =>
             /\ Len(api_keys') = Len(api_keys)
             /\ \A i \in 1..Len(api_keys) :
                   \/ api_keys'[i] = api_keys[i]
                   \/ /\ api_keys'[i] = [api_keys[i] EXCEPT !.is_active = FALSE]
                      /\ api_keys[i].user_id = user
             /\ Cardinality({i \in 1..Len(api_keys) : api_keys'[i] # api_keys[i]}) <= 1]_vars

\* A revoked key has since had its access level changed on the Settings
\* page and is still revoked.
C20_Witness ==
    /\ lastOp.op = "handleUpdateAccessLevel"
    /\ \E i \in 1..Len(api_keys) :
          ~api_keys[i].is_active /\ api_keys[i].access_level = lastOp.level


(***************************************************************************)
(* The search endpoint: POST                                               *)
(*                                                                         *)
(* An optional field of the JSON body is <<>> when absent and <<v>> when   *)
(* present with value v.                                                   *)
(***************************************************************************)
MaxSearchKeys == 2
MaxChunks == 2

Min(a, b) == IF a < b THEN a ELSE b

\* JavaScript truthiness of an optional field: of a string held as a tuple of
\* characters, of a string, of a number.
TruthyText_EmptyIsTruthy(field) == field # <<>>

TruthyText(field) == field # <<>> /\ field[1] # <<>>

TruthyString(field) == field # <<>> /\ field[1] # ""

TruthyNumber(field) == field # <<>> /\ field[1] # 0

\* Postgres ILIKE: % matches any run of characters, _ one character, and
\* letters match without regard to case.
RECURSIVE ILike(_, _)
ILike(text, pattern) ==
    IF pattern = <<>> THEN text = <<>>
    ELSE IF Head(pattern) = "%"
         THEN \/ ILike(text, Tail(pattern))
              \/ text # <<>> /\ ILike(Tail(text), pattern)
    ELSE IF Head(pattern) = "_"
         THEN text # <<>> /\ ILike(Tail(text), Tail(pattern))
    ELSE /\ text # <<>>
         /\ LowerChar(Head(text)) = LowerChar(Head(pattern))
         /\ ILike(Tail(text), Tail(pattern))

\* .eq('user_id', userId).eq('is_active', true)
\* .order('access_level', { ascending: false }).limit(1).single()
ActiveKeyOf(table, userId, readOk) ==
    LET rows == OrderByLevelDesc(
                    SelectSeq(table, LAMBDA r : r.user_id = userId /\ r.is_active))
    IN IF readOk /\ rows # <<>> THEN <<rows[1]>> ELSE <<>>

WithinLevel_Unfiltered(chunk, level) == TRUE

\* .lte('access_level', keyData.access_level)
WithinLevel(chunk, level) == chunk.access_level <= level

ChunksQuery_NoDefaultLimit(chunks, level, domain, query, top_k) ==
    LET matching ==
            SelectSeq(chunks, LAMBDA c :
                /\ WithinLevel(c, level)
                /\ TruthyString(domain) => c.domain = domain[1]
                /\ ILike(c.chunk_text, <<"%">> \o query \o <<"%">>))
    IN IF TruthyNumber(top_k)
       THEN SubSeq(matching, 1, Min(top_k[1], Len(matching)))
       ELSE matching

\* The filtered read of knowledge_chunks, in table order.
ChunksQuery(chunks, level, domain, query, top_k) ==
    LET matching ==
            SelectSeq(chunks, LAMBDA c :
                /\ WithinLevel(c, level)
                /\ TruthyString(domain) => c.domain = domain[1]
                /\ ILike(c.chunk_text, <<"%">> \o query \o <<"%">>))
        limit == IF TruthyNumber(top_k) THEN top_k[1] ELSE 20
    IN SubSeq(matching, 1, Min(limit, Len(matching)))

\* chunk_text.substring(0, 300) + (chunk_text.length > 300 ? '...' : '')
Preview(text) ==
    SubSeq(text, 1, Min(300, Len(text))) \o (IF Len(text) > 300 THEN <<"...">> ELSE <<>>)

ErrorResponse(status, chunksRead) ==
    [status |-> status, results_count |-> 0, access_level |-> Null,
     results |-> <<>>, chunksRead |-> chunksRead]

\* POST: the response, and whether knowledge_chunks has been read.  A null
\* level cannot be compared by the filter: the read fails.
POST(authUser, table, chunks, body, keysReadOk, searchOk) ==
    IF authUser = NoUser THEN ErrorResponse(401, FALSE)
    ELSE LET keyData == ActiveKeyOf(table, authUser, keysReadOk) IN
    IF keyData = <<>> THEN ErrorResponse(403, FALSE)
    ELSE IF ~body.valid THEN ErrorResponse(500, FALSE)
    ELSE IF ~TruthyText(body.query) \/ ~TruthyString(body.tool) THEN ErrorResponse(400, FALSE)
    ELSE IF ~searchOk \/ keyData[1].access_level = Null THEN ErrorResponse(500, TRUE)
    ELSE LET results == ChunksQuery(chunks, keyData[1].access_level,
                                    body.domain, body.query[1], body.top_k)
         IN [status |-> 200,
             results_count |-> Len(results),
             access_level |-> keyData[1].access_level,
             results |-> [i \in 1..Len(results) |->
                            [rank |-> i,
                             id |-> results[i].id,
                             domain |-> results[i].domain,
                             preview |-> Preview(results[i].chunk_text),
                             access_level |-> results[i].access_level]],
             chunksRead |-> TRUE]

\* All sequences over S of length at most n.
SeqsUpTo(S, n) == UNION {[1..k -> S] : k \in 0..n}

\* Key rows and chunk rows the bounded tables are made of; a row's id is its
\* position in the table.
KeyCandidates ==
    { [user_id |-> UserA, access_level |-> 2, is_active |-> TRUE],
      [user_id |-> UserA, access_level |-> 4, is_active |-> TRUE],
      [user_id |-> UserA, access_level |-> 4, is_active |-> FALSE],
      [user_id |-> UserA, access_level |-> Null, is_active |-> TRUE],
      [user_id |-> UserB, access_level |-> 4, is_active |-> TRUE] }

KeyTables(n) ==
    { [i \in 1..Len(t) |->
          KeyRow(i, t[i].user_id, t[i].access_level, t[i].is_active)] :
      t \in SeqsUpTo(KeyCandidates, n) }

ChunkCandidates ==
    { [domain |-> "d1", chunk_text |-> <<"a", "b">>, access_level |-> 1],
      [domain |-> "d1", chunk_text |-> <<"A">>, access_level |-> 3],
      [domain |-> "d2", chunk_text |-> <<"a">>, access_level |-> 3],
      [domain |-> "d2", chunk_text |-> <<"b">>, access_level |-> 4] }

ChunkTables(n) ==
    { [i \in 1..Len(t) |->
          [id |-> i, domain |-> t[i].domain, chunk_text |-> t[i].chunk_text,
           access_level |-> t[i].access_level]] :
      t \in SeqsUpTo(ChunkCandidates, n) }

SearchBodies ==
    {[valid |-> FALSE, query |-> <<>>, tool |-> <<>>, domain |-> <<>>, top_k |-> <<>>]}
    \cup [valid : {TRUE},
          query : {<<>>, << <<>> >>, << <<"a">> >>, << <<"_", "b">> >>},
          tool : {<<>>, <<"">>, <<"search">>},
          domain : {<<>>, <<"d1">>},
          top_k : {<<>>, <<0>>, <<1>>}]

\* The admin pages' state in the specifications of a request: a signed-in
\* (or anonymous) caller and a table, no page mounted.
RequestState(keyTables) ==
    /\ user \in {NoUser, UserA}
    /\ page = "keys"
    /\ api_keys \in keyTables
    /\ nextId = Len(api_keys) + 1
    /\ apiKeys = Undefined
    /\ myKeys = Undefined
    /\ newlyCreatedKey = <<>>
    /\ lastOp = NoOp

InitSearch ==
    /\ RequestState(KeyTables(MaxSearchKeys))
    /\ knowledge_chunks \in ChunkTables(MaxChunks)
    /\ io = NoIo

\* One request to the endpoint; db tells which read, if any, fails.
Post(body, db) ==
    /\ io = NoIo
    /\ io' = [kind |-> "search", body |-> body, db |-> db,
              response |-> POST(user, api_keys, knowledge_chunks, body,
                                db # "keys fail", db # "search fail")]
    /\ UNCHANGED <<adminVars, knowledge_chunks>>

NextSearch ==
    \E body \in SearchBodies, db \in {"ok", "keys fail", "search fail"} : Post(body, db)

SpecSearch == InitSearch /\ [][NextSearch]_vars


(***************************************************************************)
(* Claims about the search endpoint                                        *)
(***************************************************************************)
ActiveLevelsOf(table, userId) ==
    {table[i].access_level :
        i \in {j \in 1..Len(table) : table[j].user_id = userId /\ table[j].is_active}}

\* The highest access_level among the caller's active keys.
HighestActiveLevel(table, userId) == SetMax(ActiveLevelsOf(table, userId))

\* C4: no chunk returned by the search endpoint has an access_level above
\* the highest access_level among the caller's active keys, and a successful
\* response reports that level as the caller's.
C4_SearchRespectsAccessLevel ==
    io.kind = "search" =>
        /\ \A i \in 1..Len(io.response.results) :
              knowledge_chunks[io.response.results[i].id].access_level
                  <= HighestActiveLevel(api_keys, user)
        /\ io.response.status = 200 =>
              io.response.access_level = HighestActiveLevel(api_keys, user)

\* A search that returned a chunk and held back a matching chunk of a level
\* above the caller's.
C4_Witness ==
    /\ io.kind = "search"
    /\ io.response.status = 200
    /\ io.response.results_count > 0
    /\ \E i \in 1..Len(knowledge_chunks) :
          /\ knowledge_chunks[i].access_level > HighestActiveLevel(api_keys, user)
          /\ ILike(knowledge_chunks[i].chunk_text, <<"%">> \o io.body.query[1] \o <<"%">>)
          /\ ~TruthyString(io.body.domain)

QueryOrToolMissing(body) ==
    \/ body.query = <<>> \/ body.query[1] = <<>>
    \/ body.tool = <<>> \/ body.tool[1] = ""

MaxMiddlewareKeys == 2

RequestPaths ==
    { <<"/">>, LoginPath, <<"/login", "x">>, <<"/login", "/reset">>,
      AuthPath \o <<"/callback">>, DashboardPath, SettingsPath,
      SettingsPath \o <<"/x">>, AccessDeniedPath, <<"/api", "/search">> }

InitMiddleware ==
    /\ RequestState(KeyTables(MaxMiddlewareKeys))
    /\ knowledge_chunks = <<>>
    /\ io = NoIo

\* One request passes through the middleware.
Request(pathname, readOk) ==
    /\ io = NoIo
    /\ io' = [kind |-> "request", pathname |-> pathname, readOk |-> readOk,
              response |-> updateSession(user, pathname, api_keys, readOk)]
    /\ UNCHANGED <<adminVars, knowledge_chunks>>

NextMiddleware ==
    \E pathname \in RequestPaths, readOk \in BOOLEAN : Request(pathname, readOk)

SpecMiddleware == InitMiddleware /\ [][NextMiddleware]_vars

\* C6: an unauthenticated request to a path that starts with neither /login
\* nor /auth is redirected to /login, and an authenticated request to /login
\* is redirected to /dashboard.
C6_LoginRedirects ==
    io.kind = "request" =>
        /\ (/\ user = NoUser
            /\ ~StartsWith(io.pathname, <<"/login">>)
            /\ ~StartsWith(io.pathname, <<"/auth">>))
              => io.response = [kind |-> "redirect", path |-> <<"/login">>]
        /\ (user # NoUser /\ io.pathname = <<"/login">>)
              => io.response = [kind |-> "redirect", path |-> <<"/dashboard">>]

\* An unauthenticated request to /dashboard/settings has been redirected.
C6_Witness ==
    /\ io.kind = "request"
    /\ user = NoUser
    /\ io.pathname = SettingsPath
    /\ io.response.kind = "redirect"

HoldsL4(table, userId) ==
    \E i \in 1..Len(table) : table[i].user_id = userId /\ table[i].access_level = 4

\* C7: an authenticated request to /dashboard/settings whose key lookup did
\* not fail is served exactly when the user holds an api_keys row of level 4,
\* however many rows the user owns, and is otherwise redirected to
\* /dashboard/access-denied.
C7_SettingsServedIffL4 ==
    (io.kind = "request" /\ user # NoUser /\ io.pathname = SettingsPath /\ io.readOk) =>
        IF HoldsL4(api_keys, user)
        THEN io.response.kind = "next"
        ELSE io.response = [kind |-> "redirect", path |-> AccessDeniedPath]


(***************************************************************************)
(* percentile                                                              *)
(*                                                                         *)
(* The index is computed in IEEE-754 double precision.  The operators      *)
(* below give Math.ceil((p / 100) * n) exactly, in integers: the quotient  *)
(* p / 100 is rounded to 53 significant bits, the product with n is        *)
(* rounded again, and the result is rounded up to an integer.              *)
(***************************************************************************)
MaxLen == 25

RECURSIVE Exp2(_)
Exp2(k) == IF k = 0 THEN 1 ELSE 2 * Exp2(k - 1)

\* 2^k modulo 100
RECURSIVE Exp2Mod100(_)
Exp2Mod100(k) == IF k = 0 THEN 1 ELSE (2 * Exp2Mod100(k - 1)) % 100

\* The least e with x * 2^e >= bound.
RECURSIVE ShiftUpTo(_, _, _)
ShiftUpTo(x, bound, e) ==
    IF x * Exp2(e) >= bound THEN e ELSE ShiftUpTo(x, bound, e + 1)

\* The greatest e with 2^e <= k, for k >= 1.
RECURSIVE Log2Floor(_, _)
Log2Floor(k, e) == IF Exp2(e + 1) > k THEN e ELSE Log2Floor(k, e + 1)

\* The double nearest to p / 100, for p in 1..100, is
\* (p * 2^s + r) / (100 * 2^s) with s = 52 + QuotientShift(p) and
\* r = QuotientResidue(p): the significand is p * 2^s / 100 rounded to the
\* nearest integer (a tie cannot occur, p * 2^s being a multiple of 4).
QuotientShift(p) == ShiftUpTo(p, 100, 0)

QuotientResidue(p) ==
    LET t == (p * Exp2Mod100(52 + QuotientShift(p))) % 100
    IN IF t < 50 THEN 0 - t ELSE 100 - t

\* Math.ceil((p / 100) * n) for p in 0..100 and n >= 1.  When 100 does not
\* divide p * n the product is far from an integer and rounding does not
\* change its ceiling.  When p * n = 100 * k the exact product of the double
\* p / 100 with n is k + r * n / (100 * 2^s); it is rounded to a double above
\* k exactly when that excess is more than half the spacing of the doubles
\* at k, 2^(Log2Floor(k) - 53) (a tie goes to k, whose significand is even).
CeilOfProduct(p, n) ==
    IF p = 0 THEN 0
    ELSE LET k == (p * n) \div 100
             rem == (p * n) % 100
         IN IF rem # 0 THEN k + 1
            ELSE IF 2 * QuotientResidue(p) * n
                       > 100 * Exp2(QuotientShift(p)) * Exp2(Log2Floor(k, 0))
                 THEN k + 1
                 ELSE k

\* Two ascending arrays merged into one: an element of a goes behind the
\* elements of b that are less, an element of b behind the elements of a
\* that are less or equal.
MergeAscending(a, b) ==
    LET posA == [i \in 1..Len(a) |->
                    i + Cardinality({j \in 1..Len(b) : b[j] < a[i]})] \o <<>>
        posB == [j \in 1..Len(b) |->
                    j + Cardinality({i \in 1..Len(a) : a[i] <= b[j]})] \o <<>>
    IN [k \in 1..(Len(a) + Len(b)) |->
           IF \E i \in 1..Len(a) : posA[i] = k
           THEN a[CHOOSE i \in 1..Len(a) : posA[i] = k]
           ELSE b[CHOOSE j \in 1..Len(b) : posB[j] = k]] \o <<>>

\* [...arr].sort((a, b) => a - b)
RECURSIVE SortAscending(_)
SortAscending(arr) ==
    IF Len(arr) <= 1 THEN arr
    ELSE LET half == Len(arr) \div 2
         IN MergeAscending(SortAscending(SubSeq(arr, 1, half)),
                           SortAscending(SubSeq(arr, half + 1, Len(arr))))

\* percentile(arr, p): the value returned and the array as the call leaves
\* it (the sort works on a copy).
percentile(arr, p) ==
    IF Len(arr) = 0 THEN [value |-> 0, arr |-> arr]
    ELSE LET sorted == SortAscending(arr)
             idx == CeilOfProduct(p, Len(sorted)) - 1
         IN [value |-> sorted[(IF idx > 0 THEN idx ELSE 0) + 1], arr |-> arr]

\* The arrays percentile is applied to: every array of at most three values
\* among 1..3, and for each length up to MaxLen the arrays 1..n, n..1 and
\* n copies of 7.
PercentileArrays ==
    SeqsUpTo(1..3, 3)
    \cup {[i \in 1..n |-> i] : n \in 1..MaxLen}
    \cup {[i \in 1..n |-> n + 1 - i] : n \in 1..MaxLen}
    \cup {[i \in 1..n |-> 7] : n \in 1..MaxLen}

IdleAdmin ==
    /\ user = UserA
    /\ page = "keys"
    /\ api_keys = <<>>
    /\ nextId = 1
    /\ apiKeys = Undefined
    /\ myKeys = Undefined
    /\ newlyCreatedKey = <<>>
    /\ lastOp = NoOp
    /\ knowledge_chunks = <<>>

InitPercentile ==
    /\ IdleAdmin
    /\ io \in [kind : {"array"}, arr : PercentileArrays]

\* A page calls percentile on its array of latencies.
Percentile(p) ==
    /\ io.kind = "array"
    /\ LET r == percentile(io.arr, p)
       IN io' = [kind |-> "percentile", before |-> io.arr, p |-> p,
                 value |-> r.value, arr |-> r.arr]
    /\ UNCHANGED <<adminVars, knowledge_chunks>>

NextPercentile == \E p \in 0..100 : Percentile(p)

SpecPercentile == InitPercentile /\ [][NextPercentile]_vars

\* The 1-based nearest rank: the ceiling of p * n / 100.
NearestRank(p, n) == (p * n + 99) \div 100

\* C8: for a non-empty array and an integer p in 1..100, percentile returns
\* the element of the sorted array at the nearest rank, and leaves the array
\* as it was.
C8_PercentileIsNearestRank ==
    (io.kind = "percentile" /\ io.p \in 1..100 /\ io.before # <<>>) =>
        /\ io.value = SortAscending(io.before)[NearestRank(io.p, Len(io.before))]
        /\ io.arr = io.before

(***************************************************************************)
(* Costs page                                                              *)
(*                                                                         *)
(* Money is counted in millionths of a dollar.                             *)
(***************************************************************************)
MaxAuditRows == 3

COST_MODEL ==
    [avgTokensPerQuery |-> 200,
     avgTokensPerChunk |-> 150,
     embeddingCostPer1MTokens |-> 20000,
     avgChunksProcessedPerQuery |-> 50]

estimateQueryCost_QueryTokensOnly(model) ==
    (model.avgTokensPerQuery * model.embeddingCostPer1MTokens) \div 1000000

estimateQueryCost(model) ==
    LET queryTokens == model.avgTokensPerQuery
        chunkTokens == model.avgChunksProcessedPerQuery * model.avgTokensPerChunk
        totalTokens == queryTokens + chunkTokens
    IN (totalTokens * model.embeddingCostPer1MTokens) \div 1000000

COST_PER_QUERY == estimateQueryCost(COST_MODEL)

TOKENS_PER_QUERY ==
    COST_MODEL.avgTokensPerQuery
        + COST_MODEL.avgChunksProcessedPerQuery * COST_MODEL.avgTokensPerChunk

\* Rows of access_audit_log; age_days stands for created_at.
AuditCandidates ==
    [user_id : {"a", "b"}, chunks_returned : {Null, 60}, age_days : {1, 45}]

\* .gte('created_at', thirtyDaysAgo): the rows of the last 30 days.
CostsAuditQuery(table) == SelectSeq(table, LAMBDA r : r.age_days <= 30)

\* auditData?.length ?? 0
totalQueries30d(auditData) == IF auditData.loaded THEN Len(auditData.data) ELSE 0

monthlyCost(auditData) == totalQueries30d(auditData) * COST_PER_QUERY

totalTokens(auditData) == totalQueries30d(auditData) * TOKENS_PER_QUERY

CostsView(table, auditData) ==
    [kind |-> "costs", table |-> table, auditData |-> auditData,
     monthlyCost |-> monthlyCost(auditData),
     totalTokens |-> totalTokens(auditData)]

InitCosts ==
    /\ IdleAdmin
    /\ \E table \in SeqsUpTo(AuditCandidates, MaxAuditRows) :
          io = CostsView(table, Undefined)

\* The ['costs-audit'] query returns and the page renders again.
LoadAuditData ==
    /\ io.kind = "costs"
    /\ ~io.auditData.loaded
    /\ io' = CostsView(io.table, Loaded(CostsAuditQuery(io.table)))
    /\ UNCHANGED <<adminVars, knowledge_chunks>>

NextCosts == LoadAuditData

SpecCosts == InitCosts /\ [][NextCosts]_vars

\* C9: the estimated monthly cost is the number of audit rows loaded times
\* the per-query cost, 154 millionths of a dollar, and the estimated tokens
\* are that number times 7700, whatever the rows hold; both are 0 before the
\* rows are loaded.
C9_CostIsCountTimesConstant ==
    io.kind = "costs" =>
        LET N == IF io.auditData.loaded THEN Len(io.auditData.data) ELSE 0
        IN /\ io.monthlyCost = N * 154
           /\ io.totalTokens = N * 7700

\* Two rows of different content have been loaded and priced.
C9_Witness ==
    /\ io.kind = "costs"
    /\ io.auditData.loaded
    /\ Len(io.auditData.data) = 2
    /\ io.auditData.data[1] # io.auditData.data[2]
    /\ Len(io.table) = 3
    /\ io.monthlyCost = 308


(***************************************************************************)
(* Coverage page                                                           *)
(***************************************************************************)
MaxChunksPerDomain == 11
MaxUnknownChunks == 1
MaxEntities == 2

\* MODULE_MAP, in the order of its keys.
MODULE_MAP ==
    << [key |-> <<"t", "e", "n", "a", "n", "t", "-", "s", "e", "r", "v", "i", "c", "e", "s">>,
        code |-> "TSC"],
       [key |-> <<"c", "o", "n", "n", "e", "c", "t">>,
        code |-> "CON"],
       [key |-> <<"f", "o", "r", "e", "c", "a", "s", "t">>,
        code |-> "FST"],
       [key |-> <<"i", "l", "m">>,
        code |-> "ILM"],
       [key |-> <<"o", "p", "t", "i", "m", "i", "z", "e">>,
        code |-> "OPT"],
       [key |-> <<"a", "u", "t", "o", "m", "a", "t", "e">>,
        code |-> "AUT"],
       [key |-> <<"a", "n", "a", "l", "y", "z", "e">>,
        code |-> "ANA"],
       [key |-> <<"o", "n", "b", "o", "a", "r", "d", "i", "n", "g">>,
        code |-> "OBD"],
       [key |-> <<"p", "o", "r", "t", "a", "l">>,
        code |-> "PTL"],
       [key |-> <<"a", "d", "m", "i", "n">>,
        code |-> "APL"],
       [key |-> <<"d", "e", "m", "o">>,
        code |-> "DMD"] >>

\* String.prototype.includes
Includes(text, part) ==
    \E i \in 1..(Len(text) - Len(part) + 1) :
        SubSeq(text, i, i + Len(part) - 1) = part

RECURSIVE FirstPartialMatch(_, _)
FirstPartialMatch(lower, map) ==
    IF map = <<>> THEN "Unknown"
    ELSE IF Includes(lower, Head(map).key) \/ Includes(Head(map).key, lower)
         THEN Head(map).code
         ELSE FirstPartialMatch(lower, Tail(map))

\* domainToModule, for a domain that is not the name of a member of
\* Object.prototype.
domainToModule(domain) ==
    IF \E i \in 1..Len(MODULE_MAP) : MODULE_MAP[i].key = domain
    THEN MODULE_MAP[CHOOSE i \in 1..Len(MODULE_MAP) : MODULE_MAP[i].key = domain].code
    ELSE FirstPartialMatch(ToLowerCase(domain), MODULE_MAP)

\* domain || 'unknown'
DomainOrUnknown(domain) ==
    IF domain = <<>> THEN <<"u", "n", "k", "n", "o", "w", "n">> ELSE domain

\* The distinct elements of a sequence, in the order of their first
\* occurrence: the order of the keys of an object filled in that order.
RECURSIVE Distinct(_)
Distinct(seq) ==
    IF seq = <<>> THEN <<>>
    ELSE LET front == Distinct(SubSeq(seq, 1, Len(seq) - 1))
             last == seq[Len(seq)]
         IN IF last \in Range(front) THEN front ELSE Append(front, last)

Count(seq, x) == Cardinality({i \in 1..Len(seq) : seq[i] = x})

\* Object.entries(moduleCounts): the modules of the rows and how many rows
\* each has.
moduleCounts(rows) ==
    LET modules == [i \in 1..Len(rows) |-> domainToModule(DomainOrUnknown(rows[i].domain))]
        keys == Distinct(modules)
    IN [i \in 1..Len(keys) |-> [module |-> keys[i], count |-> Count(modules, keys[i])]]

\* entityModuleCounts[mod], 0 standing for an absent key.
entityModuleCount(entities, mod) ==
    Count([i \in 1..Len(entities) |-> domainToModule(DomainOrUnknown(entities[i].domain))], mod)

IsLowCoverage_AtMostTen(count) == count <= 10

\* count < 10
IsLowCoverage(count) == count < 10

\* The domains and content types of the model in the order sort() gives them.
SortedDomains == <<<<"F", "o", "r", "e">>, <<"c", "o", "n", "n", "e", "c", "t">>,
                   <<"u", "n", "k", "n", "o", "w", "n">>>>

SortedContentTypes == <<"doc", "faq">>

\* [...domainSet].sort() and [...ctSet].sort()
domains(chunks) ==
    SelectSeq(SortedDomains, LAMBDA d :
        \E i \in 1..Len(chunks) : DomainOrUnknown(chunks[i].domain) = d)

contentTypes(chunks) ==
    SelectSeq(SortedContentTypes, LAMBDA ct :
        \E i \in 1..Len(chunks) : chunks[i].content_type = ct)

\* matrix[d][ct], 0 standing for an absent cell.
matrix(chunks, d, ct) ==
    Cardinality({i \in 1..Len(chunks) :
        DomainOrUnknown(chunks[i].domain) = d /\ chunks[i].content_type = ct})

Gap(kind, severity, module, contentType, missing) ==
    [kind |-> kind, severity |-> severity, module |-> module,
     content_type |-> contentType, domains |-> missing]

\* gaps: the low-coverage gaps, then the no-entities gaps, then the
\* missing-content-type gaps.
gaps(chunksData, entitiesData) ==
    IF ~chunksData.loaded \/ ~entitiesData.loaded THEN <<>>
    ELSE
    LET chunks == chunksData.data
        entities == entitiesData.data
        counts == moduleCounts(chunks)
        low == SelectSeq(counts, LAMBDA e :
                   e.module # "Unknown" /\ IsLowCoverage(e.count))
        noEntities == SelectSeq(counts, LAMBDA e :
                   e.module # "Unknown" /\ entityModuleCount(entities, e.module) = 0)
        ds == domains(chunks)
        cts == contentTypes(chunks)
        missingIn(ct) == SelectSeq(ds, LAMBDA d : matrix(chunks, d, ct) = 0)
        flagged == IF Len(ds) > 1 /\ Len(cts) > 1
                   THEN SelectSeq(cts, LAMBDA ct :
                            /\ 2 * (Len(ds) - Len(missingIn(ct))) >= Len(ds)
                            /\ Len(missingIn(ct)) > 0
                            /\ Len(missingIn(ct)) <= 3)
                   ELSE <<>>
    IN [i \in 1..Len(low) |-> Gap("low", "Medium", low[i].module, "", <<>>)]
       \o [i \in 1..Len(noEntities) |->
              Gap("no-entities", "High", noEntities[i].module, "", <<>>)]
       \o [i \in 1..Len(flagged) |-> Gap("missing", "Low", "", flagged[i], missingIn(flagged[i]))]

Repeat(n, x) == [i \in 1..n |-> x]

ChunkRow(domain, contentType) == [domain |-> domain, content_type |-> contentType]

\* The chunk lists the page is given: n1 chunks of domain connect, the first
\* of content type faq when mixed, n2 chunks of domain Fore and n3 chunks
\* without a domain, which belong to no module, in this order or the reverse.
CoverageChunkLists ==
    { LET connect == <<"c", "o", "n", "n", "e", "c", "t">>
          list == [i \in 1..n1 |->
                      ChunkRow(connect, IF mixed /\ i = 1 THEN "faq" ELSE "doc")]
                  \o Repeat(n2, ChunkRow(<<"F", "o", "r", "e">>, "doc"))
                  \o Repeat(n3, ChunkRow(<<>>, "doc"))
      IN IF reversed THEN Reverse(list) ELSE list :
      n1 \in 0..MaxChunksPerDomain, n2 \in 0..MaxChunksPerDomain,
      n3 \in 0..MaxUnknownChunks, mixed \in BOOLEAN, reversed \in BOOLEAN }

CoverageEntityLists ==
    SeqsUpTo([domain : {<<>>, <<"c", "o", "n", "n", "e", "c", "t">>,
                        <<"f", "o", "r", "e", "c", "a", "s", "t", "-", "a">>}],
             MaxEntities)

CoverageView(chunksData, entitiesData) ==
    [kind |-> "coverage", chunks |-> chunksData, entities |-> entitiesData,
     gaps |-> gaps(chunksData, entitiesData)]

InitCoverage ==
    /\ IdleAdmin
    /\ io = CoverageView(Undefined, Undefined)

\* The ['coverage-chunks'] query returns.
LoadCoverageChunks(list) ==
    /\ io.kind = "coverage"
    /\ ~io.chunks.loaded
    /\ io' = CoverageView(Loaded(list), io.entities)
    /\ UNCHANGED <<adminVars, knowledge_chunks>>

\* The ['coverage-entities'] query returns.
LoadCoverageEntities(list) ==
    /\ io.kind = "coverage"
    /\ ~io.entities.loaded
    /\ io' = CoverageView(io.chunks, Loaded(list))
    /\ UNCHANGED <<adminVars, knowledge_chunks>>

NextCoverage ==
    \/ \E list \in CoverageChunkLists : LoadCoverageChunks(list)
    \/ \E list \in CoverageEntityLists : LoadCoverageEntities(list)

SpecCoverage == InitCoverage /\ [][NextCoverage]_vars

\* The number of loaded chunks that belong to a module.
ChunksOfModule(chunks, module) ==
    Cardinality({i \in 1..Len(chunks) :
        domainToModule(DomainOrUnknown(chunks[i].domain)) = module})

ModuleGaps == {"low", "no-entities"}

\* C10 as stated: every gap that flags a module flags one with fewer than 10
\* chunks, and none flags the module "Unknown".
C10_FlagsOnlyBelowThreshold ==
    io.kind = "coverage" =>
        \A i \in 1..Len(io.gaps) :
            io.gaps[i].kind \in ModuleGaps =>
                /\ ChunksOfModule(io.chunks.data, io.gaps[i].module) < 10
                /\ io.gaps[i].module # "Unknown"

\* C10 as amended: a low-coverage gap flags a module with at least one and
\* fewer than 10 chunks; a no-entities gap flags a module, whatever its chunk
\* count, to which no loaded entity belongs; neither flags "Unknown".
C10_LowCoverageOnlyBelowThreshold ==
    io.kind = "coverage" =>
        \A i \in 1..Len(io.gaps) :
            /\ io.gaps[i].kind = "low" =>
                  ChunksOfModule(io.chunks.data, io.gaps[i].module) \in 1..9
            /\ io.gaps[i].kind = "no-entities" =>
                  /\ ChunksOfModule(io.chunks.data, io.gaps[i].module) >= 1
                  /\ \A j \in 1..Len(io.entities.data) :
                        domainToModule(DomainOrUnknown(io.entities.data[j].domain))
                            # io.gaps[i].module
            /\ io.gaps[i].kind \in ModuleGaps => io.gaps[i].module # "Unknown"

\* A module of 10 chunks is not flagged for low coverage while a module of 9
\* chunks is, and chunks of the module "Unknown" are loaded.
C10_Witness ==
    /\ io.kind = "coverage"
    /\ io.chunks.loaded /\ io.entities.loaded
    /\ ChunksOfModule(io.chunks.data, "CON") = 10
    /\ ChunksOfModule(io.chunks.data, "FST") = 9
    /\ ChunksOfModule(io.chunks.data, "Unknown") = 1
    /\ \E i \in 1..Len(io.gaps) : io.gaps[i].kind = "low" /\ io.gaps[i].module = "FST"
    /\ ~\E i \in 1..Len(io.gaps) : io.gaps[i].kind = "low" /\ io.gaps[i].module = "CON"
    /\ \E i \in 1..Len(io.gaps) : io.gaps[i].kind = "no-entities" /\ io.gaps[i].module = "CON"


(***************************************************************************)
(* Playground page: handleSearch                                           *)
(*                                                                         *)
(* A piece of state that is null or a value is <<>> or <<value>>.  The     *)
(* response to a search carries the number of the search it answers.       *)
(***************************************************************************)
MaxSearches == 3

PlaygroundQueries == {<<>>, <<" ">>, <<"q">>, <<"q", " ">>}

\* The ways a fetch of /api/search ends: a 2xx response with results, a
\* response that is not ok, a rejected fetch or a body that is not JSON.
SearchOutcomes == {"ok", "not ok", "threw"}

\* The component's state and the fetches it has started: searches[i] is the
\* i-th call that got past the blank-query check.
PlaygroundState(query, results, searching, error, searches, event) ==
    [kind |-> "playground", query |-> query, results |-> results,
     searching |-> searching, error |-> error, searches |-> searches,
     event |-> event]

NoEvent == [kind |-> "none", search |-> 0]

InitPlayground ==
    /\ IdleAdmin
    /\ io = PlaygroundState(<<>>, <<>>, FALSE, <<>>, <<>>, NoEvent)

\* onChange of the query textarea
SetQuery(q) ==
    /\ io.kind = "playground"
    /\ q # io.query
    /\ io' = [io EXCEPT !.query = q, !.event = NoEvent]
    /\ UNCHANGED <<adminVars, knowledge_chunks>>

\* The Search button is enabled.
SearchButtonEnabled == ~(io.searching \/ Trim(io.query) = <<>>)

\* handleSearch up to its await of fetch.
handleSearch_Start ==
    IF Trim(io.query) = <<>>
    THEN [io EXCEPT !.event = [kind |-> "returned", search |-> 0]]
    ELSE [io EXCEPT !.searching = TRUE,
                    !.error = <<>>,
                    !.results = <<>>,
                    !.searches = Append(@, [state |-> "in flight", requests |-> 1]),
                    !.event = [kind |-> "started", search |-> Len(io.searches) + 1]]

\* handleSearch is called by a click of the Search button or by
\* Ctrl/Cmd+Enter in the textarea, which is never disabled.
StartSearch(by) ==
    /\ io.kind = "playground"
    /\ by = "button" => SearchButtonEnabled
    /\ Trim(io.query) # <<>> => Len(io.searches) < MaxSearches
    /\ io' = handleSearch_Start
    /\ UNCHANGED <<adminVars, knowledge_chunks>>

\* handleSearch from the return of its fetch to its end.
handleSearch_Finish(i, outcome) ==
    LET after == IF outcome = "ok"
                 THEN [io EXCEPT !.results = <<i>>]
                 ELSE [io EXCEPT !.error = <<i>>]
    IN [after EXCEPT !.searching = FALSE,
                     !.searches[i].state = outcome,
                     !.event = [kind |-> "finished", search |-> i]]

\* The fetch of search i settles.
FinishSearch(i, outcome) ==
    /\ io.kind = "playground"
    /\ i \in 1..Len(io.searches)
    /\ io.searches[i].state = "in flight"
    /\ io' = handleSearch_Finish(i, outcome)
    /\ UNCHANGED <<adminVars, knowledge_chunks>>

NextPlayground ==
    \/ \E q \in PlaygroundQueries : SetQuery(q)
    \/ \E by \in {"button", "key"} : StartSearch(by)
    \/ \E i \in 1..MaxSearches, outcome \in SearchOutcomes : FinishSearch(i, outcome)

SpecPlayground == InitPlayground /\ [][NextPlayground]_vars

\* C12: when a call of handleSearch finishes it has sent one request,
\* searching is false, and error is set and results null if its request
\* failed, results set and error null if it succeeded.
C12_SearchEndsInOneOutcome ==
    (io.kind = "playground" /\ io.event.kind = "finished") =>
        LET i == io.event.search
        IN /\ io.searches[i].requests = 1
           /\ ~io.searching
           /\ IF io.searches[i].state = "ok"
              THEN io.results # <<>> /\ io.error = <<>>
              ELSE io.error # <<>> /\ io.results = <<>>

InFlight == {i \in 1..Len(io.searches) : io.searches[i].state = "in flight"}

\* C18: once every started search has completed, results and error are those
\* of the search started last; searching is true while a search is in flight.
C18_LatestSearchWins ==
    (io.kind = "playground" /\ io.searches # <<>>) =>
        LET last == Len(io.searches)
        IN /\ InFlight # {} => io.searching
           /\ InFlight = {} =>
                 IF io.searches[last].state = "ok"
                 THEN io.results = <<last>> /\ io.error = <<>>
                 ELSE io.error = <<last>> /\ io.results = <<>>


(***************************************************************************)
(* The search endpoint and its limit                                       *)
(***************************************************************************)
MaxMatching == 22

\* top_k of the request body: omitted, or a non-negative integer.
TopKs == {<<>>, <<0>>, <<1>>, <<5>>, <<20>>, <<21>>, <<MaxMatching>>}

TopKBody(top_k) ==
    [valid |-> TRUE, query |-> << <<"a">> >>, tool |-> <<"search">>,
     domain |-> <<>>, top_k |-> top_k]

\* Tables of n chunks that match the query "a" at level 1, each followed,
\* when mixed, by a chunk of level 4 that the caller may not read.
TopKChunkTables ==
    { [i \in 1..(IF mixed THEN 2 * n ELSE n) |->
          IF mixed /\ i % 2 = 0
          THEN [id |-> i, access_level |-> 4, domain |-> "d1", chunk_text |-> <<"a">>]
          ELSE [id |-> i, access_level |-> 1, domain |-> "d1", chunk_text |-> <<"b", "A">>]] :
      n \in 0..MaxMatching, mixed \in BOOLEAN }

InitTopK ==
    /\ RequestState({<<KeyRow(1, UserA, 2, TRUE)>>})
    /\ knowledge_chunks \in TopKChunkTables
    /\ io = NoIo

TopKBodies == {TopKBody(top_k) : top_k \in TopKs}

NextTopK ==
    \E body \in TopKBodies, db \in {"ok", "search fail"} : Post(body, db)

SpecTopK == InitTopK /\ [][NextTopK]_vars

\* The limit a request asks for: top_k, or 20 when top_k is omitted or 0.
AskedLimit(body) ==
    IF body.top_k = <<>> \/ body.top_k = <<0>> THEN 20 ELSE body.top_k[1]

\* C13: in a 200 response results_count is the number of results, the
\* result at position i has rank i, and results_count is at most top_k, or at
\* most 20 when top_k is omitted or 0.
C13_RanksAndCount ==
    (io.kind = "search" /\ io.response.status = 200) =>
        /\ io.response.results_count = Len(io.response.results)
        /\ \A i \in 1..Len(io.response.results) : io.response.results[i].rank = i
        /\ io.response.results_count <= AskedLimit(io.body)

\* More than 20 chunks match, top_k is omitted and 20 results are returned.
C13_Witness ==
    /\ io.kind = "search"
    /\ io.response.status = 200
    /\ io.body.top_k = <<>>
    /\ Cardinality({i \in 1..Len(knowledge_chunks) :
                       knowledge_chunks[i].access_level = 1}) > 20
    /\ io.response.results_count = 20
    /\ io.response.results[20].rank = 20


(***************************************************************************)
(* Settings page: orphan entities                                          *)
(*                                                                         *)
(* A chunk's entity_codes is <<>> when null and <<codes>> when an array.   *)
(***************************************************************************)
MaxOrphanEntities == 2
MaxOrphanChunks == 2

ReferencedCodes_FirstCodeOnly(chunks) ==
    {chunks[i].entity_codes[1][1] :
        i \in {j \in 1..Len(chunks) :
                  chunks[j].entity_codes # <<>> /\ chunks[j].entity_codes[1] # <<>>}}

\* referencedCodes: the codes of the arrays of the chunks.
ReferencedCodes(chunks) ==
    UNION {Range(chunks[i].entity_codes[1]) :
              i \in {j \in 1..Len(chunks) : chunks[j].entity_codes # <<>>}}

\* orphanEntities: null, or <<list>>.
orphanEntities(allEntities, allChunks) ==
    IF ~allEntities.loaded \/ ~allChunks.loaded THEN <<>>
    ELSE LET referencedCodes == ReferencedCodes(allChunks.data)
         IN <<SelectSeq(allEntities.data, LAMBDA e : e.code \notin referencedCodes)>>

OrphansView(allEntities, allChunks, event) ==
    [kind |-> "orphans", allEntities |-> allEntities, allChunks |-> allChunks,
     orphanEntities |-> orphanEntities(allEntities, allChunks), event |-> event]

OrphanEntityLists ==
    SeqsUpTo([code : {"E1", "E2", "e1"}], MaxOrphanEntities)

OrphanChunkLists ==
    SeqsUpTo([entity_codes : {<<>>, << <<>> >>, << <<"E1">> >>,
                              << <<"E2", "E1">> >>, << <<"e1">> >>}],
             MaxOrphanChunks)

InitOrphans ==
    /\ IdleAdmin
    /\ io = OrphansView(Undefined, Undefined, "mounted")

\* The ['corpus-orphans-entities'] query settles: with rows, or with an error
\* that leaves its data undefined.
LoadOrphanEntities(list, readOk) ==
    /\ io.kind = "orphans"
    /\ ~io.allEntities.loaded
    /\ io' = IF readOk
             THEN OrphansView(Loaded(list), io.allChunks, "entities read")
             ELSE OrphansView(io.allEntities, io.allChunks, "entities read failed")
    /\ UNCHANGED <<adminVars, knowledge_chunks>>

\* The ['corpus-orphans-chunks'] query settles.
LoadOrphanChunks(list, readOk) ==
    /\ io.kind = "orphans"
    /\ ~io.allChunks.loaded
    /\ io' = IF readOk
             THEN OrphansView(io.allEntities, Loaded(list), "chunks read")
             ELSE OrphansView(io.allEntities, io.allChunks, "chunks read failed")
    /\ UNCHANGED <<adminVars, knowledge_chunks>>

NextOrphans ==
    \/ \E list \in OrphanEntityLists, readOk \in BOOLEAN : LoadOrphanEntities(list, readOk)
    \/ \E list \in OrphanChunkLists, readOk \in BOOLEAN : LoadOrphanChunks(list, readOk)

SpecOrphans == InitOrphans /\ [][NextOrphans]_vars

\* Some loaded chunk lists the code among its entity_codes.
CodeIsReferenced(code) ==
    \E i \in 1..Len(io.allChunks.data) :
        /\ io.allChunks.data[i].entity_codes # <<>>
        /\ \E k \in 1..Len(io.allChunks.data[i].entity_codes[1]) :
              io.allChunks.data[i].entity_codes[1][k] = code

\* C16: the orphan list is null until both reads have returned; after that
\* it holds the loaded entities whose code no loaded chunk lists, each as
\* often as it is loaded and in the loaded order.
C16_OrphansAreUnreferenced ==
    io.kind = "orphans" =>
        IF io.allEntities.loaded /\ io.allChunks.loaded
        THEN /\ io.orphanEntities # <<>>
             /\ \A code \in {"E1", "E2", "e1"} :
                   LET loaded == {i \in 1..Len(io.allEntities.data) :
                                     io.allEntities.data[i].code = code}
                       listed == {i \in 1..Len(io.orphanEntities[1]) :
                                     io.orphanEntities[1][i].code = code}
                   IN Cardinality(listed) =
                         (IF CodeIsReferenced(code) THEN 0 ELSE Cardinality(loaded))
        ELSE io.orphanEntities = <<>>

\* Of two loaded entities one is referenced by the second code of a chunk and
\* the other only by a code of different case: the list holds just the other.
C16_Witness ==
    /\ io.kind = "orphans"
    /\ io.allEntities = Loaded(<<[code |-> "E1"], [code |-> "e1"]>>)
    /\ io.allChunks = Loaded(<<[entity_codes |-> <<>>],
                               [entity_codes |-> << <<"E2", "E1">> >>]>>)
    /\ io.orphanEntities = << <<[code |-> "e1"]>> >>


(***************************************************************************)
(* Settings page: handleRevoke calls that overlap                          *)
(*                                                                         *)
(* handleRevoke runs up to its await of the delete, the delete is carried  *)
(* out by the database, and the handler resumes with the refetch of the    *)
(* key list; other calls may run in between.  pending holds the calls that *)
(* have not ended with the await they have reached.                        *)
(***************************************************************************)
RevokesState(mutatingRows, pending) ==
    [kind |-> "revokes", mutatingRows |-> mutatingRows, pending |-> pending]

\* Tables with exactly two L4 keys, of two users, shown by an up-to-date list.
TwoAdminTables ==
    { <<KeyRow(1, UserA, 4, TRUE), KeyRow(2, UserB, 4, TRUE)>>,
      <<KeyRow(1, UserA, 4, TRUE), KeyRow(2, <<"c">>, 2, TRUE), KeyRow(3, UserB, 4, TRUE)>>,
      <<KeyRow(1, <<"c">>, 3, FALSE), KeyRow(2, UserB, 4, TRUE), KeyRow(3, UserA, 4, TRUE)>> }

InitRevokes ==
    /\ user = UserA
    /\ page = "settings"
    /\ api_keys \in TwoAdminTables
    /\ nextId = Len(api_keys) + 1
    /\ apiKeys = Loaded(SettingsKeysQuery(api_keys, TRUE))
    /\ myKeys = Undefined
    /\ newlyCreatedKey = <<>>
    /\ lastOp = NoOp
    /\ knowledge_chunks = <<>>
    /\ io = RevokesState({}, {})

\* handleRevoke(userId) from the click of an enabled Remove button to the
\* await of the delete.
RevokeStart(userId, confirmed) ==
    /\ io.kind = "revokes"
    /\ page = "settings"
    /\ \E i \in 1..Len(apiKeys.data) : apiKeys.data[i].user_id = userId
    /\ userId \notin io.mutatingRows
    /\ IF RevokeGuard(apiKeys.data, userId)
       THEN /\ lastOp' = Op("settings.handleRevoke", userId, "alert", Null)
            /\ UNCHANGED io
       ELSE IF ~confirmed
       THEN /\ lastOp' = Op("settings.handleRevoke", userId, "none", Null)
            /\ UNCHANGED io
       ELSE /\ lastOp' = Op("settings.handleRevoke", userId, "delete", Null)
            /\ io' = RevokesState(io.mutatingRows \cup {userId},
                                  io.pending \cup {[user_id |-> userId, await |-> "delete"]})
    /\ UNCHANGED <<user, page, api_keys, nextId, apiKeys, myKeys, newlyCreatedKey,
                   knowledge_chunks>>

\* The delete of a call is answered: on an error the call alerts and ends,
\* otherwise it goes on to await refetchKeys().
RevokeDeleted(userId, dbOk) ==
    /\ io.kind = "revokes"
    /\ [user_id |-> userId, await |-> "delete"] \in io.pending
    /\ IF dbOk
       THEN /\ api_keys' = DeleteUser(api_keys, userId)
            /\ io' = RevokesState(io.mutatingRows,
                        (io.pending \ {[user_id |-> userId, await |-> "delete"]})
                            \cup {[user_id |-> userId, await |-> "refetch"]})
       ELSE /\ api_keys' = api_keys
            /\ io' = RevokesState(io.mutatingRows \ {userId},
                        io.pending \ {[user_id |-> userId, await |-> "delete"]})
    /\ lastOp' = IF dbOk THEN NoOp ELSE Op("settings.handleRevoke", userId, "alert", Null)
    /\ UNCHANGED <<user, page, nextId, apiKeys, myKeys, newlyCreatedKey, knowledge_chunks>>

\* The refetch of a call returns and the call ends.
RevokeRefetched(userId, readOk) ==
    /\ io.kind = "revokes"
    /\ [user_id |-> userId, await |-> "refetch"] \in io.pending
    /\ apiKeys' = Loaded(SettingsKeysQuery(api_keys, readOk))
    /\ io' = RevokesState(io.mutatingRows \ {userId},
                          io.pending \ {[user_id |-> userId, await |-> "refetch"]})
    /\ lastOp' = NoOp
    /\ UNCHANGED <<user, page, api_keys, nextId, myKeys, newlyCreatedKey, knowledge_chunks>>

NextRevokes ==
    \/ \E userId \in Users \cup {<<"c">>}, confirmed \in BOOLEAN : RevokeStart(userId, confirmed)
    \/ \E userId \in Users \cup {<<"c">>}, dbOk \in BOOLEAN : RevokeDeleted(userId, dbOk)
    \/ \E userId \in Users \cup {<<"c">>}, readOk \in BOOLEAN : RevokeRefetched(userId, readOk)

SpecRevokes == InitRevokes /\ [][NextRevokes]_vars

\* C17: starting from exactly two L4 keys of two users, once the calls of
\* handleRevoke that were started have all completed, an L4 key remains.
C17_OverlappingRevokesKeepAnL4Key ==
    (io.kind = "revokes" /\ io.pending = {}) => HasL4(api_keys)


(***************************************************************************)
(* mutatingRows: the row mutations of both pages, with their awaits        *)
(*                                                                         *)
(* The page that is mounted stays mounted.  On the Keys page mutatingRows  *)
(* holds String(key.id), which is written here as the id itself.           *)
(***************************************************************************)
InitMutations ==
    /\ user \in Users
    /\ page \in {"settings", "keys"}
    /\ api_keys \in InitTables \cup TwoAdminTables
    /\ nextId = Len(api_keys) + 1
    /\ apiKeys = IF page = "settings"
                 THEN Loaded(SettingsKeysQuery(api_keys, TRUE)) ELSE Undefined
    /\ myKeys = IF page = "keys" THEN Loaded(MyKeysQuery(api_keys, user)) ELSE Undefined
    /\ newlyCreatedKey = <<>>
    /\ lastOp = NoOp
    /\ knowledge_chunks = <<>>
    /\ io = RevokesState({}, {})

\* Settings page: handleUpdateAccessLevel(userId, level), called by the
\* enabled select of a row, up to the await of the update.
UpdateStart(userId, level) ==
    /\ io.kind = "revokes"
    /\ page = "settings"
    /\ \E i \in 1..Len(apiKeys.data) :
          apiKeys.data[i].user_id = userId /\ apiKeys.data[i].access_level # level
    /\ userId \notin io.mutatingRows
    /\ lastOp' = Op("handleUpdateAccessLevel", <<>>, "update", JsonNumber(level))
    /\ io' = RevokesState(io.mutatingRows \cup {userId},
                io.pending \cup {[user_id |-> userId, await |-> "update", level |-> level]})
    /\ UNCHANGED <<user, page, api_keys, nextId, apiKeys, myKeys, newlyCreatedKey,
                   knowledge_chunks>>

UpdateWritten_KeepsRowOnError(userId, level, dbOk) ==
    LET call == [user_id |-> userId, await |-> "update", level |-> level] IN
    /\ io.kind = "revokes"
    /\ call \in io.pending
    /\ IF dbOk
       THEN /\ api_keys' = UpdateLevel(api_keys, userId, JsonNumber(level))
            /\ io' = RevokesState(io.mutatingRows,
                        (io.pending \ {call}) \cup {[user_id |-> userId, await |-> "refetch"]})
       ELSE /\ api_keys' = api_keys
            /\ io' = RevokesState(io.mutatingRows, io.pending \ {call})
    /\ lastOp' = IF dbOk THEN NoOp ELSE Op("handleUpdateAccessLevel", <<>>, "alert", Null)
    /\ UNCHANGED <<user, page, nextId, apiKeys, myKeys, newlyCreatedKey, knowledge_chunks>>

\* The update of a call is answered: on an error the call alerts and ends,
\* otherwise it goes on to await refetchKeys(); RevokeRefetched ends it.
UpdateWritten(userId, level, dbOk) ==
    LET call == [user_id |-> userId, await |-> "update", level |-> level] IN
    /\ io.kind = "revokes"
    /\ call \in io.pending
    /\ IF dbOk
       THEN /\ api_keys' = UpdateLevel(api_keys, userId, JsonNumber(level))
            /\ io' = RevokesState(io.mutatingRows,
                        (io.pending \ {call}) \cup {[user_id |-> userId, await |-> "refetch"]})
       ELSE /\ api_keys' = api_keys
            /\ io' = RevokesState(io.mutatingRows \ {userId}, io.pending \ {call})
    /\ lastOp' = IF dbOk THEN NoOp ELSE Op("handleUpdateAccessLevel", <<>>, "alert", Null)
    /\ UNCHANGED <<user, page, nextId, apiKeys, myKeys, newlyCreatedKey, knowledge_chunks>>

\* Keys page: handleRevoke(keyId), called by the enabled Revoke button of an
\* active key, up to the await of the update.
KeyRevokeStart(keyId) ==
    /\ io.kind = "revokes"
    /\ page = "keys"
    /\ \E i \in 1..Len(myKeys.data) :
          myKeys.data[i].id = keyId /\ myKeys.data[i].is_active
    /\ keyId \notin io.mutatingRows
    /\ lastOp' = Op("keys.handleRevoke", <<>>, "update is_active", Null)
    /\ io' = RevokesState(io.mutatingRows \cup {keyId},
                          io.pending \cup {[id |-> keyId, await |-> "update is_active"]})
    /\ UNCHANGED <<user, page, api_keys, nextId, apiKeys, myKeys, newlyCreatedKey,
                   knowledge_chunks>>

\* The update is answered: on an error the call sets actionError and ends,
\* otherwise it goes on to await refetch().
KeyRevokeWritten(keyId, dbOk) ==
    LET call == [id |-> keyId, await |-> "update is_active"] IN
    /\ io.kind = "revokes"
    /\ call \in io.pending
    /\ IF dbOk
       THEN /\ api_keys' = RevokeKey(api_keys, keyId, user)
            /\ io' = RevokesState(io.mutatingRows,
                        (io.pending \ {call}) \cup {[id |-> keyId, await |-> "refetch"]})
       ELSE /\ api_keys' = api_keys
            /\ io' = RevokesState(io.mutatingRows \ {keyId}, io.pending \ {call})
    /\ lastOp' = IF dbOk THEN NoOp ELSE Op("keys.handleRevoke", <<>>, "actionError", Null)
    /\ UNCHANGED <<user, page, nextId, apiKeys, myKeys, newlyCreatedKey, knowledge_chunks>>

\* The refetch returns and the call ends.
KeyRevokeRefetched(keyId, readOk) ==
    /\ io.kind = "revokes"
    /\ [id |-> keyId, await |-> "refetch"] \in io.pending
    /\ myKeys' = RefetchMyKeys(myKeys, api_keys, user, readOk)
    /\ io' = RevokesState(io.mutatingRows \ {keyId},
                          io.pending \ {[id |-> keyId, await |-> "refetch"]})
    /\ lastOp' = NoOp
    /\ UNCHANGED <<user, page, api_keys, nextId, apiKeys, newlyCreatedKey, knowledge_chunks>>

NextMutations ==
    \/ NextRevokes
    \/ \E userId \in Users \cup {<<"c">>}, level \in PickedLevels : UpdateStart(userId, level)
    \/ \E userId \in Users \cup {<<"c">>}, level \in PickedLevels, dbOk \in BOOLEAN :
          UpdateWritten(userId, level, dbOk)
    \/ \E keyId \in 1..MaxKeyId : KeyRevokeStart(keyId)
    \/ \E keyId \in 1..MaxKeyId, dbOk \in BOOLEAN : KeyRevokeWritten(keyId, dbOk)
    \/ \E keyId \in 1..MaxKeyId, readOk \in BOOLEAN : KeyRevokeRefetched(keyId, readOk)

SpecMutations == InitMutations /\ [][NextMutations]_vars

\* The row a call is about.
RowOf(call) == IF page = "settings" THEN call.user_id ELSE call.id

\* The calls whose write has just been answered with an error: their await
\* of the write is over and they await no refetch.
FailedCalls ==
    {call \in io.pending \ io'.pending :
        /\ call.await # "refetch"
        /\ \A other \in io'.pending : RowOf(other) # RowOf(call)}

\* C21: after every step mutatingRows holds exactly the rows of the calls
\* that have not ended, so that it is empty once all have ended; a call
\* whose write fails ends with a message and without a refetch of the list.
C21_MutatingRowsTrackRequests ==
    [][/\ io'.mutatingRows = {RowOf(call) : call \in io'.pending}
       /\ FailedCalls # {} =>
             /\ lastOp'.request \in {"alert", "actionError"}
             /\ apiKeys' = apiKeys
             /\ myKeys' = myKeys
             /\ api_keys' = api_keys]_vars

\* On the Settings page a call has ended with an error while another call is
\* still in flight.
C21_Witness ==
    /\ io.kind = "revokes"
    /\ page = "settings"
    /\ lastOp.request = "alert" /\ lastOp.op = "handleUpdateAccessLevel"
    /\ io.pending # {}
    /\ io.mutatingRows # {}


(***************************************************************************)
(* Settings page: the invite form                                          *)
(*                                                                         *)
(* handleInvite runs up to its await of the insert and resumes when the    *)
(* insert is answered; pending is <<>> or holds the insert that was sent.  *)
(***************************************************************************)
InviteForm(newUserId, newDisplayName, newAccessLevel, isInviting, inviteError, pending) ==
    [kind |-> "invite", newUserId |-> newUserId, newDisplayName |-> newDisplayName,
     newAccessLevel |-> newAccessLevel, isInviting |-> isInviting,
     inviteError |-> inviteError, pending |-> pending]

\* The key list the form is submitted against: not loaded yet, up to date,
\* or read before the last row was added.
InviteKeyLists(table) ==
    {Undefined, Loaded(SettingsKeysQuery(table, TRUE)),
     Loaded(SettingsKeysQuery(SubSeq(table, 1, Len(table) - 1), TRUE))}

InitInvite ==
    /\ user = UserA
    /\ page = "settings"
    /\ api_keys \in InitTables
    /\ nextId = Len(api_keys) + 1
    /\ apiKeys \in InviteKeyLists(api_keys)
    /\ myKeys = Undefined
    /\ newlyCreatedKey = <<>>
    /\ lastOp = NoOp
    /\ knowledge_chunks = <<>>
    /\ io = InviteForm(<<>>, <<>>, 2, FALSE, <<>>, <<>>)

\* onChange of the Username input, the Display Name input, the Access Level
\* select, which are disabled while isInviting.
SetNewUserId(value) ==
    /\ io.kind = "invite"
    /\ ~io.isInviting
    /\ value # io.newUserId
    /\ io' = [io EXCEPT !.newUserId = value]
    /\ lastOp' = NoOp
    /\ UNCHANGED <<user, page, api_keys, nextId, apiKeys, myKeys, newlyCreatedKey,
                   knowledge_chunks>>

SetNewDisplayName(value) ==
    /\ io.kind = "invite"
    /\ ~io.isInviting
    /\ value # io.newDisplayName
    /\ io' = [io EXCEPT !.newDisplayName = value]
    /\ lastOp' = NoOp
    /\ UNCHANGED <<user, page, api_keys, nextId, apiKeys, myKeys, newlyCreatedKey,
                   knowledge_chunks>>

SetNewAccessLevel(level) ==
    /\ io.kind = "invite"
    /\ ~io.isInviting
    /\ level # io.newAccessLevel
    /\ io' = [io EXCEPT !.newAccessLevel = level]
    /\ lastOp' = NoOp
    /\ UNCHANGED <<user, page, api_keys, nextId, apiKeys, myKeys, newlyCreatedKey,
                   knowledge_chunks>>

SubmitInvite_ChecksRawInput ==
    LET trimmedId == ToLowerCase(Trim(io.newUserId))
        trimmedName == Trim(io.newDisplayName)
    IN
    /\ io.kind = "invite"
    /\ page = "settings"
    /\ ~io.isInviting
    /\ IF trimmedId = <<>> \/ trimmedName = <<>>
       THEN /\ lastOp' = Op("handleInvite", <<>>, "none", Null)
            /\ UNCHANGED io
       ELSE IF \E i \in 1..Len(apiKeys.data) : apiKeys.data[i].user_id = Trim(io.newUserId)
       THEN /\ lastOp' = Op("handleInvite", <<>>, "inviteError", Null)
            /\ io' = [io EXCEPT !.inviteError = <<"already exists">>]
       ELSE /\ nextId <= MaxKeyId
            /\ lastOp' = Op("handleInvite", <<>>, "insert", JsonNumber(io.newAccessLevel))
            /\ io' = [io EXCEPT !.isInviting = TRUE,
                                !.inviteError = <<>>,
                                !.pending = <<[user_id |-> trimmedId,
                                               access_level |-> JsonNumber(io.newAccessLevel)]>>]
    /\ UNCHANGED <<user, page, api_keys, nextId, apiKeys, myKeys, newlyCreatedKey,
                   knowledge_chunks>>

\* handleInvite, called with what the form holds, up to the await of the
\* insert.
SubmitInvite ==
    LET trimmedId == ToLowerCase(Trim(io.newUserId))
        trimmedName == Trim(io.newDisplayName)
    IN
    /\ io.kind = "invite"
    /\ page = "settings"
    /\ ~io.isInviting
    /\ IF trimmedId = <<>> \/ trimmedName = <<>>
       THEN /\ lastOp' = Op("handleInvite", <<>>, "none", Null)
            /\ UNCHANGED io
       ELSE IF \E i \in 1..Len(apiKeys.data) : apiKeys.data[i].user_id = trimmedId
       THEN /\ lastOp' = Op("handleInvite", <<>>, "inviteError", Null)
            /\ io' = [io EXCEPT !.inviteError = <<"already exists">>]
       ELSE /\ nextId <= MaxKeyId
            /\ lastOp' = Op("handleInvite", <<>>, "insert", JsonNumber(io.newAccessLevel))
            /\ io' = [io EXCEPT !.isInviting = TRUE,
                                !.inviteError = <<>>,
                                !.pending = <<[user_id |-> trimmedId,
                                               access_level |-> JsonNumber(io.newAccessLevel)]>>]
    /\ UNCHANGED <<user, page, api_keys, nextId, apiKeys, myKeys, newlyCreatedKey,
                   knowledge_chunks>>

\* The insert is answered and handleInvite runs to its end.
InviteAnswered(dbOk, readOk) ==
    /\ io.kind = "invite"
    /\ io.pending # <<>>
    /\ IF dbOk
       THEN /\ api_keys' = Append(api_keys, KeyRow(nextId, io.pending[1].user_id,
                                                  io.pending[1].access_level, TRUE))
            /\ nextId' = nextId + 1
            /\ apiKeys' = Loaded(SettingsKeysQuery(api_keys', readOk))
            /\ io' = [io EXCEPT !.newUserId = <<>>, !.newDisplayName = <<>>,
                                !.newAccessLevel = 2, !.isInviting = FALSE,
                                !.pending = <<>>]
       ELSE /\ io' = [io EXCEPT !.inviteError = <<"failed">>, !.isInviting = FALSE,
                                !.pending = <<>>]
            /\ UNCHANGED <<api_keys, nextId, apiKeys>>
    /\ lastOp' = NoOp
    /\ UNCHANGED <<user, page, myKeys, newlyCreatedKey, knowledge_chunks>>

NextInvite ==
    \/ \E value \in RawUserIds : SetNewUserId(value)
    \/ \E value \in RawNames : SetNewDisplayName(value)
    \/ \E level \in PickedLevels : SetNewAccessLevel(level)
    \/ SubmitInvite
    \/ \E dbOk, readOk \in BOOLEAN : InviteAnswered(dbOk, readOk)

SpecInvite == InitInvite /\ [][NextInvite]_vars

\* The user ids of the rows of the loaded key list.
LoadedUserIds == {apiKeys.data[i].user_id : i \in 1..Len(apiKeys.data)}

\* C22: a call of handleInvite whose trimmed, lower-cased user id is that of
\* a row of the loaded key list sets inviteError, sends no insert and leaves
\* the form fields and isInviting as they were; a call with a blank user id
\* or display name sends no insert; no insert is sent for a user id of the
\* loaded list.
C22_InviteRefusesDuplicates ==
    [][lastOp'.op = "handleInvite" =>
          LET id == ToLowerCase(Trim(io.newUserId))
              blank == id = <<>> \/ Trim(io.newDisplayName) = <<>>
          IN /\ (~blank /\ id \in LoadedUserIds) =>
                   /\ io'.inviteError # <<>>
                   /\ io' = [io EXCEPT !.inviteError = io'.inviteError]
             /\ (blank \/ id \in LoadedUserIds) =>
                   /\ lastOp'.request # "insert"
                   /\ io'.pending = <<>>
                   /\ api_keys' = api_keys
             /\ io'.pending # <<>> => io'.pending[1].user_id \notin LoadedUserIds]_vars

\* handleInvite has refused "B" because the loaded list holds a row of b.
C22_Witness ==
    /\ io.kind = "invite"
    /\ lastOp.op = "handleInvite" /\ lastOp.request = "inviteError"
    /\ io.newUserId = <<"B">>
    /\ io.inviteError # <<>>
    /\ ~io.isInviting


(***************************************************************************)
(* Entities page: filtering and pagination                                 *)
(*                                                                         *)
(* null is <<>> and a value v is <<v>> for typeFilter, expandedCode and    *)
(* aliases.  The entity list is loaded and stays as it is.                 *)
(***************************************************************************)
MaxTypeEntities == 51

PAGE_SIZE == 25

\* An entity list, ordered by code: persons, then teams, which have an alias.
EntityList(persons, teams) ==
    [i \in 1..(persons + teams) |->
        IF i <= persons
        THEN [code |-> <<"p", ToString(i)>>, canonical_name |-> <<"A", "n">>,
              entity_type |-> "person", aliases |-> <<>>]
        ELSE [code |-> <<"t", ToString(i)>>, canonical_name |-> <<"B">>,
              entity_type |-> "team", aliases |-> << << <<"x", "Y">> >> >>]]

EntityLists ==
    {EntityList(persons, teams) :
        persons \in {0, 25, 26, MaxTypeEntities}, teams \in {0, 1, MaxTypeEntities}}

EntitySearches == {<<>>, <<" ">>, <<"a">>, <<"A", "N">>, <<"y">>, <<"t">>, <<"z">>}

EntitiesState(entities, searchQuery, typeFilter, expandedCode, pageIndex) ==
    [kind |-> "entities", entities |-> entities, searchQuery |-> searchQuery,
     typeFilter |-> typeFilter, expandedCode |-> expandedCode, page |-> pageIndex]

\* filteredEntities
filteredEntities(entities, typeFilter, searchQuery) ==
    LET byType == IF typeFilter # <<>>
                  THEN SelectSeq(entities, LAMBDA e : e.entity_type = typeFilter[1])
                  ELSE entities
        q == ToLowerCase(searchQuery)
    IN IF Trim(searchQuery) # <<>>
       THEN SelectSeq(byType, LAMBDA e :
                \/ Includes(ToLowerCase(e.code), q)
                \/ Includes(ToLowerCase(e.canonical_name), q)
                \/ /\ e.aliases # <<>>
                   /\ \E k \in 1..Len(e.aliases[1]) :
                         Includes(ToLowerCase(e.aliases[1][k]), q))
       ELSE byType

\* Math.ceil(filteredEntities.length / PAGE_SIZE)
totalPages(filtered) == (Len(filtered) + PAGE_SIZE - 1) \div PAGE_SIZE

\* filteredEntities.slice(page * PAGE_SIZE, (page + 1) * PAGE_SIZE)
paginatedEntities(filtered, pageIndex) ==
    SubSeq(filtered, pageIndex * PAGE_SIZE + 1,
           Min((pageIndex + 1) * PAGE_SIZE, Len(filtered)))

InitEntities ==
    /\ IdleAdmin
    /\ \E entities \in EntityLists : io = EntitiesState(entities, <<>>, <<>>, <<>>, 0)

handleTypeFilter(type) ==
    /\ io.kind = "entities"
    /\ io' = [io EXCEPT !.typeFilter = type, !.page = 0, !.expandedCode = <<>>]
    /\ UNCHANGED <<adminVars, knowledge_chunks>>

entitiesHandleSearch_KeepsPage(value) ==
    /\ io.kind = "entities"
    /\ io' = [io EXCEPT !.searchQuery = value, !.expandedCode = <<>>]
    /\ UNCHANGED <<adminVars, knowledge_chunks>>

\* handleSearch of the Entities page
entitiesHandleSearch(value) ==
    /\ io.kind = "entities"
    /\ io' = [io EXCEPT !.searchQuery = value, !.page = 0, !.expandedCode = <<>>]
    /\ UNCHANGED <<adminVars, knowledge_chunks>>

\* The rows on display.
DisplayedEntities ==
    paginatedEntities(filteredEntities(io.entities, io.typeFilter, io.searchQuery), io.page)

\* toggleExpand, called by a click on the first or the last row on display.
toggleExpand(last) ==
    /\ io.kind = "entities"
    /\ DisplayedEntities # <<>>
    /\ LET code == DisplayedEntities[IF last THEN Len(DisplayedEntities) ELSE 1].code
       IN io' = [io EXCEPT !.expandedCode = IF @ = <<code>> THEN <<>> ELSE <<code>>]
    /\ UNCHANGED <<adminVars, knowledge_chunks>>

\* The Previous and Next buttons, rendered when totalPages > 1 and enabled
\* when page # 0 and when page + 1 < totalPages.
PreviousPage ==
    /\ io.kind = "entities"
    /\ totalPages(filteredEntities(io.entities, io.typeFilter, io.searchQuery)) > 1
    /\ io.page # 0
    /\ io' = [io EXCEPT !.page = @ - 1]
    /\ UNCHANGED <<adminVars, knowledge_chunks>>

NextPage ==
    /\ io.kind = "entities"
    /\ totalPages(filteredEntities(io.entities, io.typeFilter, io.searchQuery)) > 1
    /\ ~(io.page + 1 >= totalPages(filteredEntities(io.entities, io.typeFilter, io.searchQuery)))
    /\ io' = [io EXCEPT !.page = @ + 1]
    /\ UNCHANGED <<adminVars, knowledge_chunks>>

NextEntities ==
    \/ \E type \in {<<>>, <<"person">>, <<"team">>} : handleTypeFilter(type)
    \/ \E value \in EntitySearches : entitiesHandleSearch(value)
    \/ \E last \in BOOLEAN : toggleExpand(last)
    \/ PreviousPage
    \/ NextPage

SpecEntities == InitEntities /\ [][NextEntities]_vars

\* C23: the page index is at least 0, the first row of the page exists in
\* the filtered list (the index is 0 when the list is empty), and at most 25
\* rows are on display.
C23_PageWithinFilteredList ==
    io.kind = "entities" =>
        LET count == Len(filteredEntities(io.entities, io.typeFilter, io.searchQuery))
        IN /\ io.page >= 0
           /\ IF count = 0 THEN io.page = 0 ELSE io.page * 25 < count
           /\ Len(DisplayedEntities) <= 25

\* The third page of 51 persons is on display, with its row expanded.
C23_Witness ==
    /\ io.kind = "entities"
    /\ io.page = 2
    /\ io.typeFilter = <<"person">>
    /\ Len(DisplayedEntities) = 1
    /\ io.expandedCode # <<>>


(***************************************************************************)
(* Entities page: the parent chain of the expanded entity                  *)
(*                                                                         *)
(* The while loop of parentChain runs one iteration per step.  An absent   *)
(* entity (undefined) is <<>> and an entity e is <<e>>; parent_code is     *)
(* <<>> for null and <<code>> otherwise, "" being the empty string.        *)
(***************************************************************************)
MaxChainEntities == 3

ChainCodes == {ToString(i) : i \in 1..MaxChainEntities}

\* parent_code values: null, the empty string, a code of no entity, a code.
ParentCodes == {<<>>, <<"">>, <<"none">>} \cup {<<c>> : c \in ChainCodes}

\* The loaded entities: one row per code, and possibly an earlier row that
\* carries the first code again.
ChainEntityLists ==
    LET Rows(parentOf) ==
            [i \in 1..MaxChainEntities |->
                [code |-> ToString(i), parent_code |-> parentOf[ToString(i)]]]
    IN UNION {{Rows(parentOf),
               <<[code |-> "1", parent_code |-> <<"2">>]>> \o Rows(parentOf)} :
              parentOf \in [ChainCodes -> ParentCodes]}

\* entityMap.get(code), entityMap being new Map(entities.map(e => [e.code, e])):
\* the last row of a code is the one the map keeps.
EntityMapGet(entities, code) ==
    LET rows == {i \in 1..Len(entities) : entities[i].code = code}
    IN IF rows = {} THEN <<>> ELSE <<entities[SetMax(rows)]>>

ParentChainState(entities, expandedCode, chain, current, done) ==
    [kind |-> "parentChain", entities |-> entities, expandedCode |-> expandedCode,
     chain |-> chain, current |-> current, done |-> done]

\* parentChain up to its loop: [] at once when no entity is expanded.
InitParentChain ==
    /\ IdleAdmin
    /\ \E entities \in ChainEntityLists,
          expandedCode \in {<<>>, <<"none">>} \cup {<<c>> : c \in ChainCodes} :
          io = IF expandedCode = <<>>
               THEN ParentChainState(entities, expandedCode, <<>>, <<>>, TRUE)
               ELSE ParentChainState(entities, expandedCode, <<>>,
                                     EntityMapGet(entities, expandedCode[1]), FALSE)

\* current?.parent_code is truthy
HasParentCode(current) ==
    /\ current # <<>>
    /\ current[1].parent_code # <<>>
    /\ current[1].parent_code # <<"">>

ParentChainStep_IgnoresFirstParent ==
    /\ io.kind = "parentChain"
    /\ ~io.done
    /\ IF HasParentCode(io.current)
       THEN LET parent == EntityMapGet(io.entities, io.current[1].parent_code[1])
            IN IF parent = <<>> \/ parent[1] \in Range(SubSeq(io.chain, 2, Len(io.chain)))
               THEN io' = [io EXCEPT !.done = TRUE]
               ELSE io' = [io EXCEPT !.chain = Append(@, parent[1]), !.current = parent]
       ELSE io' = [io EXCEPT !.done = TRUE]
    /\ UNCHANGED <<adminVars, knowledge_chunks>>

\* One evaluation of the loop condition and, when it holds, of the loop body.
ParentChainStep ==
    /\ io.kind = "parentChain"
    /\ ~io.done
    /\ IF HasParentCode(io.current)
       THEN LET parent == EntityMapGet(io.entities, io.current[1].parent_code[1])
            IN IF parent = <<>> \/ parent[1] \in Range(io.chain)
               THEN io' = [io EXCEPT !.done = TRUE]
               ELSE io' = [io EXCEPT !.chain = Append(@, parent[1]), !.current = parent]
       ELSE io' = [io EXCEPT !.done = TRUE]
    /\ UNCHANGED <<adminVars, knowledge_chunks>>

NextParentChain == ParentChainStep

\* The computation is synchronous: an iteration that can run does run.
SpecParentChain ==
    InitParentChain /\ [][NextParentChain]_vars /\ WF_vars(NextParentChain)

ChainHasNoRepeats ==
    \A i, j \in 1..Len(io.chain) : io.chain[i] = io.chain[j] => i = j

\* C24: the computation of the parent chain ends, whatever the parent_code
\* relation, and no entity is in the chain more than once.
C24_ParentChainEndsWithoutRepeats ==
    /\ [](io.kind = "parentChain" => ChainHasNoRepeats)
    /\ <>(io.kind = "parentChain" /\ io.done)

\* The chain of an entity on a cycle through every code ends at the entity.
C24_Witness ==
    /\ io.kind = "parentChain"
    /\ io.done
    /\ Len(io.chain) = MaxChainEntities
    /\ io.expandedCode = <<io.chain[Len(io.chain)].code>>


(***************************************************************************)
(* Graph explorer: nodes and links under the type filter                   *)
(***************************************************************************)
MaxGraphEntities == 2

MaxGraphEdges == 2

GraphTypes == {"person", "team"}

GraphEntityLists ==
    SeqsUpTo([code : {"A", "B"}, entity_type : GraphTypes], MaxGraphEntities)

\* Edges may name a code that no entity carries.
GraphEdgeLists ==
    SeqsUpTo([source_entity : {"A", "B", "C"}, target_entity : {"A", "B", "C"}],
             MaxGraphEdges)

GraphState(entities, edges, activeTypes, effectPending) ==
    [kind |-> "graph", entities |-> entities, edges |-> edges,
     activeTypes |-> activeTypes, effectPending |-> effectPending]

\* new Set(entities.map((e) => e.entity_type))
TypesOf(entities) == {entities[i].entity_type : i \in 1..Len(entities)}

graphData_LinksBySourceOnly(entities, edges, activeTypes) ==
    IF ~entities.loaded \/ ~edges.loaded
    THEN [nodes |-> <<>>, links |-> <<>>]
    ELSE LET filtered == SelectSeq(entities.data, LAMBDA e : e.entity_type \in activeTypes)
             nodeSet == {filtered[i].code : i \in 1..Len(filtered)}
             kept == SelectSeq(edges.data, LAMBDA e : e.source_entity \in nodeSet)
         IN [nodes |-> [i \in 1..Len(filtered) |->
                           [id |-> filtered[i].code, type |-> filtered[i].entity_type]],
             links |-> [i \in 1..Len(kept) |->
                           [source |-> kept[i].source_entity,
                            target |-> kept[i].target_entity]]]

graphData(entities, edges, activeTypes) ==
    IF ~entities.loaded \/ ~edges.loaded
    THEN [nodes |-> <<>>, links |-> <<>>]
    ELSE LET filtered == SelectSeq(entities.data, LAMBDA e : e.entity_type \in activeTypes)
             nodeSet == {filtered[i].code : i \in 1..Len(filtered)}
             kept == SelectSeq(edges.data, LAMBDA e :
                         e.source_entity \in nodeSet /\ e.target_entity \in nodeSet)
         IN [nodes |-> [i \in 1..Len(filtered) |->
                           [id |-> filtered[i].code, type |-> filtered[i].entity_type]],
             links |-> [i \in 1..Len(kept) |->
                           [source |-> kept[i].source_entity,
                            target |-> kept[i].target_entity]]]

InitGraph ==
    /\ IdleAdmin
    /\ io = GraphState(Undefined, Undefined, {}, FALSE)

\* The graph-entities query answers; the effect on [entities] is then due.
LoadGraphEntities(rows) ==
    /\ io.kind = "graph"
    /\ ~io.entities.loaded
    /\ io' = [io EXCEPT !.entities = Loaded(rows), !.effectPending = TRUE]
    /\ UNCHANGED <<adminVars, knowledge_chunks>>

LoadGraphEdges(rows) ==
    /\ io.kind = "graph"
    /\ ~io.edges.loaded
    /\ io' = [io EXCEPT !.edges = Loaded(rows)]
    /\ UNCHANGED <<adminVars, knowledge_chunks>>

\* useEffect on [entities]: every type of the loaded entities becomes active.
InitializeActiveTypes ==
    /\ io.kind = "graph"
    /\ io.effectPending
    /\ io' = [io EXCEPT !.activeTypes = TypesOf(io.entities.data),
                        !.effectPending = FALSE]
    /\ UNCHANGED <<adminVars, knowledge_chunks>>

\* toggleType, from the button of a type of the loaded entities.
toggleType(type) ==
    /\ io.kind = "graph"
    /\ ~io.effectPending
    /\ io.entities.loaded
    /\ type \in TypesOf(io.entities.data)
    /\ io' = [io EXCEPT !.activeTypes = IF type \in @ THEN @ \ {type} ELSE @ \cup {type}]
    /\ UNCHANGED <<adminVars, knowledge_chunks>>

selectAll ==
    /\ io.kind = "graph"
    /\ ~io.effectPending
    /\ io' = [io EXCEPT !.activeTypes =
                 IF io.entities.loaded THEN TypesOf(io.entities.data) ELSE @]
    /\ UNCHANGED <<adminVars, knowledge_chunks>>

selectNone ==
    /\ io.kind = "graph"
    /\ ~io.effectPending
    /\ io' = [io EXCEPT !.activeTypes = {}]
    /\ UNCHANGED <<adminVars, knowledge_chunks>>

NextGraph ==
    \/ \E rows \in GraphEntityLists : LoadGraphEntities(rows)
    \/ \E rows \in GraphEdgeLists : LoadGraphEdges(rows)
    \/ InitializeActiveTypes
    \/ \E type \in GraphTypes : toggleType(type)
    \/ selectAll
    \/ selectNone

SpecGraph == InitGraph /\ [][NextGraph]_vars

CurrentGraphData == graphData(io.entities, io.edges, io.activeTypes)

\* C25: every link of the graph starts and ends at a node of the graph,
\* every node has an active type, and there are no nodes and no links when
\* no type is active.
C25_LinksJoinShownNodes ==
    io.kind = "graph" =>
        LET nodes == CurrentGraphData.nodes
            links == CurrentGraphData.links
            ids == {nodes[i].id : i \in 1..Len(nodes)}
        IN /\ \A i \in 1..Len(links) : links[i].source \in ids /\ links[i].target \in ids
           /\ \A i \in 1..Len(nodes) : nodes[i].type \in io.activeTypes
           /\ io.activeTypes = {} => nodes = <<>> /\ links = <<>>

\* One of two types was switched off: the person is shown with its link to
\* itself, and the edge to the team is not.
C25_Witness ==
    /\ io.kind = "graph"
    /\ io.activeTypes = {"person"}
    /\ io.entities = Loaded(<<[code |-> "A", entity_type |-> "person"],
                              [code |-> "B", entity_type |-> "team"]>>)
    /\ io.edges = Loaded(<<[source_entity |-> "A", target_entity |-> "B"],
                           [source_entity |-> "A", target_entity |-> "A"]>>)
    /\ CurrentGraphData.links = <<[source |-> "A", target |-> "A"]>>


(***************************************************************************)
(* Middleware: a browser follows the redirects                             *)
(***************************************************************************)
MaxRedirects == 3

FollowState(pathname, redirects, served) ==
    [kind |-> "follow", pathname |-> pathname, redirects |-> redirects,
     served |-> served]

InitRedirects ==
    /\ RequestState(KeyTables(MaxMiddlewareKeys))
    /\ knowledge_chunks = <<>>
    /\ \E pathname \in RequestPaths : io = FollowState(pathname, 0, FALSE)

\* The request for the current path passes through the middleware, and the
\* browser asks for the path of a redirect next.
FollowRequest(readOk) ==
    /\ io.kind = "follow"
    /\ ~io.served
    /\ io.redirects < MaxRedirects
    /\ LET response == updateSession(user, io.pathname, api_keys, readOk)
       IN io' = IF response.kind = "redirect"
                THEN FollowState(response.path, io.redirects + 1, FALSE)
                ELSE FollowState(io.pathname, io.redirects, TRUE)
    /\ UNCHANGED <<adminVars, knowledge_chunks>>

NextRedirects == \E readOk \in BOOLEAN : FollowRequest(readOk)

\* A browser sends the request a redirect names.
SpecRedirects ==
    InitRedirects /\ [][NextRedirects]_vars /\ WF_vars(NextRedirects)

\* C26: from every starting path and for every user, following the
\* redirects takes at most two redirects and ends at a path that is served.
C26_RedirectsEndAtServedPath ==
    /\ [](io.kind = "follow" => io.redirects <= 2)
    /\ <>(io.kind = "follow" /\ io.served)

\* A signed-in user without an L4 key asked for /dashboard/settings and was
\* served the access-denied page after one redirect.
C26_Witness ==
    /\ io.kind = "follow"
    /\ io.served
    /\ io.redirects = 1
    /\ io.pathname = AccessDeniedPath
    /\ user # NoUser


(***************************************************************************)
(* Analytics page: the slow-query log                                      *)
(*                                                                         *)
(* An audit row is its query_time_ms, Null or a number, and its created_at.*)
(***************************************************************************)
MaxMidRows == 45

MaxLatencyRows == 440

AuditRowsOf(latencies) ==
    [i \in 1..Len(latencies) |-> [query_time_ms |-> latencies[i], created_at |-> i]]

\* The latencies of the audit rows the page is given: the short lists, the
\* lists n..1 and 1..n, lists with equal latencies at the top, lists with
\* rows that have no latency, lists of zeros below one slow row.
AuditLatencyLists ==
    SeqsUpTo({Null, 0, 1, 2}, 3)
    \cup {[i \in 1..n |-> n + 1 - i] : n \in (1..MaxMidRows) \cup {420, MaxLatencyRows}}
    \cup {[i \in 1..n |-> i] : n \in 1..MaxMidRows}
    \cup {[i \in 1..n |-> IF i <= 2 THEN n ELSE n - i] : n \in 3..MaxMidRows}
    \cup {[i \in 1..n |-> IF i % 3 = 0 THEN Null ELSE n - i] : n \in 1..MaxMidRows}
    \cup {[i \in 1..n |-> IF i = 2 THEN 5 ELSE 0] : n \in 2..MaxMidRows}

\* latencyValues
latencyValues(auditRows) ==
    LET kept == SelectSeq(auditRows, LAMBDA r : r.query_time_ms # Null)
    IN [i \in 1..Len(kept) |-> kept[i].query_time_ms]

RECURSIVE InsertByLatencyDesc(_, _)
InsertByLatencyDesc(r, sorted) ==
    IF sorted = <<>> THEN <<r>>
    ELSE IF r.query_time_ms > Head(sorted).query_time_ms THEN <<r>> \o sorted
         ELSE <<Head(sorted)>> \o InsertByLatencyDesc(r, Tail(sorted))

\* .sort((a, b) => b.query_time_ms - a.query_time_ms), a stable sort
RECURSIVE SortByLatencyDesc(_)
SortByLatencyDesc(rows) ==
    IF rows = <<>> THEN <<>>
    ELSE InsertByLatencyDesc(rows[Len(rows)],
                             SortByLatencyDesc(SubSeq(rows, 1, Len(rows) - 1)))

slowQueries_AtOrAboveP95(auditRows, p95) ==
    IF p95 = 0 THEN <<>>
    ELSE LET above == SelectSeq(auditRows, LAMBDA r :
                          r.query_time_ms # Null /\ r.query_time_ms >= p95)
             sorted == SortByLatencyDesc(above)
         IN SubSeq(sorted, 1, Min(20, Len(sorted)))

slowQueries(auditRows, p95) ==
    IF p95 = 0 THEN <<>>
    ELSE LET above == SelectSeq(auditRows, LAMBDA r :
                          r.query_time_ms # Null /\ r.query_time_ms > p95)
             sorted == SortByLatencyDesc(above)
         IN SubSeq(sorted, 1, Min(20, Len(sorted)))

InitSlowQueries ==
    /\ IdleAdmin
    /\ \E latencies \in AuditLatencyLists :
          io = [kind |-> "audit", auditRows |-> AuditRowsOf(latencies)]

\* The audit rows have loaded and the page computes p95 and slowQueries.
RenderSlowQueries ==
    /\ io.kind = "audit"
    /\ LET p95 == percentile(latencyValues(io.auditRows), 95).value
       IN io' = [kind |-> "slow", auditRows |-> io.auditRows, p95 |-> p95,
                 slowQueries |-> slowQueries(io.auditRows, p95)]
    /\ UNCHANGED <<adminVars, knowledge_chunks>>

NextSlowQueries == RenderSlowQueries

SpecSlowQueries == InitSlowQueries /\ [][NextSlowQueries]_vars

\* The rows with a latency above P95.
RowsAboveP95 ==
    {i \in 1..Len(io.auditRows) :
        /\ io.auditRows[i].query_time_ms # Null
        /\ io.auditRows[i].query_time_ms > io.p95}

\* C27: the slow-query log holds only rows whose latency is not null and is
\* greater than P95, in order of non-increasing latency, at most 20 of them,
\* and none when P95 is 0; the rows above P95 are at most 5% of the rows
\* that have a latency.
C27_SlowQueriesAreAboveP95 ==
    io.kind = "slow" =>
        LET slow == io.slowQueries
        IN /\ \A i \in 1..Len(slow) :
                 /\ slow[i] \in Range(io.auditRows)
                 /\ slow[i].query_time_ms # Null
                 /\ slow[i].query_time_ms > io.p95
           /\ \A i, j \in 1..Len(slow) :
                 i < j => slow[i].query_time_ms >= slow[j].query_time_ms
           /\ Len(slow) <= 20
           /\ io.p95 = 0 => slow = <<>>
           /\ 100 * Cardinality(RowsAboveP95)
                 <= 5 * Len(latencyValues(io.auditRows))

\* More than 20 rows are above P95 and the log shows 20 of them.
C27_Witness ==
    /\ io.kind = "slow"
    /\ Cardinality(RowsAboveP95) > 20
    /\ Len(io.slowQueries) = 20
    /\ io.slowQueries[1].query_time_ms = MaxLatencyRows


(***************************************************************************)
(* Analytics page: the histogram of chunks returned                        *)
(***************************************************************************)
MaxHistRows == 3

MaxChunksReturned == 60

\* Infinity, which every number is at most.
Infinity == -3

AtMost(c, max) == max = Infinity \/ c <= max

CHUNK_BUCKETS_SixToTenFromFive ==
    << [label |-> "0", min |-> 0, max |-> 0],
       [label |-> "1-5", min |-> 1, max |-> 5],
       [label |-> "6-10", min |-> 5, max |-> 10],
       [label |-> "11-20", min |-> 11, max |-> 20],
       [label |-> "21-50", min |-> 21, max |-> 50],
       [label |-> "50+", min |-> 51, max |-> Infinity] >>

CHUNK_BUCKETS ==
    << [label |-> "0", min |-> 0, max |-> 0],
       [label |-> "1-5", min |-> 1, max |-> 5],
       [label |-> "6-10", min |-> 6, max |-> 10],
       [label |-> "11-20", min |-> 11, max |-> 20],
       [label |-> "21-50", min |-> 21, max |-> 50],
       [label |-> "50+", min |-> 51, max |-> Infinity] >>

\* r.chunks_returned ?? 0
ChunksOrZero(c) == IF c = Null THEN 0 ELSE c

InBucket(c, bucket) == c >= bucket.min /\ AtMost(c, bucket.max)

\* chunksHistData
chunksHistData(auditRows) ==
    [b \in 1..Len(CHUNK_BUCKETS) |->
        [name |-> CHUNK_BUCKETS[b].label,
         count |-> Len(SelectSeq(auditRows, LAMBDA r :
                       InBucket(ChunksOrZero(r.chunks_returned), CHUNK_BUCKETS[b])))]]

\* chunks_returned of the audit rows: null, the ends of each bucket, and
\* the largest number of chunks.
ChunksReturnedValues ==
    {Null, 0, 1, 5, 6, 10, 11, 20, 21, 50, 51, MaxChunksReturned}

HistRowLists == SeqsUpTo([chunks_returned : ChunksReturnedValues], MaxHistRows)

InitChunksHist ==
    /\ IdleAdmin
    /\ \E rows \in HistRowLists : io = [kind |-> "audit", auditRows |-> rows]

\* The audit rows have loaded and the page computes chunksHistData.
RenderChunksHist ==
    /\ io.kind = "audit"
    /\ io' = [kind |-> "hist", auditRows |-> io.auditRows,
              chunksHistData |-> chunksHistData(io.auditRows)]
    /\ UNCHANGED <<adminVars, knowledge_chunks>>

NextChunksHist == RenderChunksHist

SpecChunksHist == InitChunksHist /\ [][NextChunksHist]_vars

BucketsOf(c) == {b \in 1..Len(CHUNK_BUCKETS) : InBucket(c, CHUNK_BUCKETS[b])}

RECURSIVE SumOfCounts(_)
SumOfCounts(hist) ==
    IF hist = <<>> THEN 0 ELSE Head(hist).count + SumOfCounts(Tail(hist))

\* C28: every number of chunks from 0 on is in exactly one bucket, every
\* audit row, null counting as 0, is counted in exactly one bucket, and the
\* counts add up to the number of audit rows.
C28_EachRowInOneBucket ==
    io.kind = "hist" =>
        /\ \A c \in 0..MaxChunksReturned : Cardinality(BucketsOf(c)) = 1
        /\ \A i \in 1..Len(io.auditRows) :
              LET c == ChunksOrZero(io.auditRows[i].chunks_returned)
              IN /\ Cardinality(BucketsOf(c)) = 1
                 /\ \A b \in BucketsOf(c) : io.chunksHistData[b].count >= 1
        /\ SumOfCounts(io.chunksHistData) = Len(io.auditRows)

\* A row without chunks_returned, a row of 5 chunks and a row of more than
\* 50 chunks have been counted.
C28_Witness ==
    /\ io.kind = "hist"
    /\ io.auditRows = <<[chunks_returned |-> Null], [chunks_returned |-> 5],
                        [chunks_returned |-> MaxChunksReturned]>>
    /\ io.chunksHistData[1].count = 1
    /\ io.chunksHistData[2].count = 1
    /\ io.chunksHistData[6].count = 1

====
